---- MODULE Spec2Model ----
(***************************************************************************)
(* Review-extraction and pagination engine of the Amazon review scraper:   *)
(* field extraction, review identity and de-duplication, page navigation,  *)
(* the login state machine and the scrape orchestrator.                    *)
(*                                                                         *)
(* Texts are sequences of one-character strings.  Floats are exact         *)
(* decimals [num, den] with den a power of ten.  hashlib.md5(..)[:16] is   *)
(* taken to be injective on the strings of the model: a fingerprint is the *)
(* hashed string itself behind a "#" mark.                                 *)
(***************************************************************************)
EXTENDS Integers, Sequences, FiniteSets, TLC

\* Python's None where a float is expected
None == [num |-> 0, den |-> 0]

----------------------------------------------------------------------------
(* Text helpers (Python str operations used by the extractors)              *)

Digits == {"0", "1", "2", "3", "4", "5", "6", "7", "8", "9"}

Whitespace == {" ", "\n", "\t"}

DigitVal(c) ==
  CASE c = "0" -> 0 [] c = "1" -> 1 [] c = "2" -> 2 [] c = "3" -> 3
    [] c = "4" -> 4 [] c = "5" -> 5 [] c = "6" -> 6 [] c = "7" -> 7
    [] c = "8" -> 8 [] c = "9" -> 9

DigitChar(d) == <<"0", "1", "2", "3", "4", "5", "6", "7", "8", "9">>[d + 1]

Rep(c, n) == IF n <= 0 THEN <<>> ELSE [i \in 1..n |-> c]

\* s[:n]
Take(s, n) == SubSeq(s, 1, IF Len(s) < n THEN Len(s) ELSE n)

\* s[i:] with i a 1-based position
From(s, i) == SubSeq(s, i, Len(s))

\* positions of s that hold no whitespace
Inked(s) == {i \in 1..Len(s) : s[i] \notin Whitespace}

\* str.lstrip()
LStrip(s) ==
  IF Inked(s) = {} THEN <<>>
  ELSE From(s, CHOOSE i \in Inked(s) : \A j \in Inked(s) : i <= j)

\* str.rstrip()
RStrip(s) ==
  IF Inked(s) = {} THEN <<>>
  ELSE SubSeq(s, 1, CHOOSE i \in Inked(s) : \A j \in Inked(s) : j <= i)

\* str.strip()
Strip(s) == LStrip(RStrip(s))

\* re.sub(r'\s+', ' ', s)
CollapseWs(s) ==
  LET marked == [i \in 1..Len(s) |->
                   [c |-> IF s[i] \in Whitespace THEN " " ELSE s[i],
                    first |-> s[i] \notin Whitespace \/ i = 1 \/ s[i - 1] \notin Whitespace]]
      firsts == SelectSeq(marked, LAMBDA m : m.first)
  IN  [i \in 1..Len(firsts) |-> firsts[i].c]

\* whitespace normalisation: runs collapsed, ends trimmed
Normalize(s) == Strip(CollapseWs(s))

\* s.split('\n')
RECURSIVE SplitLines(_)
SplitLines(s) ==
  IF \A i \in 1..Len(s) : s[i] # "\n" THEN <<s>>
  ELSE LET k == CHOOSE i \in 1..Len(s) : s[i] = "\n" /\ \A j \in 1..(i - 1) : s[j] # "\n"
       IN  <<SubSeq(s, 1, k - 1)>> \o SplitLines(From(s, k + 1))

\* max(lines, key=len): the first line of maximal length
LongestLine(lines) ==
  lines[CHOOSE i \in 1..Len(lines) :
          /\ \A j \in 1..Len(lines) : Len(lines[j]) <= Len(lines[i])
          /\ \A j \in 1..(i - 1) : Len(lines[j]) < Len(lines[i])]

\* end of the run of digits that starts at position i
RECURSIVE RunEnd(_, _)
RunEnd(s, i) == IF i + 1 <= Len(s) /\ s[i + 1] \in Digits THEN RunEnd(s, i + 1) ELSE i

RECURSIVE DigitsToNat(_)
DigitsToNat(s) ==
  IF s = <<>> THEN 0 ELSE 10 * DigitsToNat(SubSeq(s, 1, Len(s) - 1)) + DigitVal(s[Len(s)])

RECURSIVE Pow10(_)
Pow10(k) == IF k = 0 THEN 1 ELSE 10 * Pow10(k - 1)

RECURSIVE NatToChars(_)
NatToChars(n) == IF n < 10 THEN <<DigitChar(n)>> ELSE NatToChars(n \div 10) \o <<DigitChar(n % 10)>>

\* a float keeps its value, not its spelling: 4.50 and 4.5 are one number
RECURSIVE Canon(_)
Canon(v) ==
  IF v.den > 1 /\ v.num % 10 = 0 THEN Canon([num |-> v.num \div 10, den |-> v.den \div 10]) ELSE v

\* re.search(r'(\d+\.?\d*)', s) followed by float(match.group(1)); None when no match
FirstDecimal(s) ==
  IF \A i \in 1..Len(s) : s[i] \notin Digits THEN None
  ELSE LET i == CHOOSE p \in 1..Len(s) : s[p] \in Digits /\ \A q \in 1..(p - 1) : s[q] \notin Digits
           j == RunEnd(s, i)
           hasFrac == j + 2 <= Len(s) /\ s[j + 1] = "." /\ s[j + 2] \in Digits
           k == IF hasFrac THEN RunEnd(s, j + 2) ELSE j
           frac == IF hasFrac THEN SubSeq(s, j + 2, k) ELSE <<>>
       IN  Canon([num |-> DigitsToNat(SubSeq(s, i, j)) * Pow10(Len(frac)) + DigitsToNat(frac),
                  den |-> Pow10(Len(frac))])

\* 1 <= rating_value <= 5
RatingLo == 1

RatingHi == 5

InRatingRange(v) == RatingLo * v.den <= v.num /\ v.num <= RatingHi * v.den

\* zero-padded fraction digits of a canonical decimal
FracChars(v) ==
  LET f == NatToChars(v.num % v.den)
      width == Len(NatToChars(v.den)) - 1
  IN  Rep("0", width - Len(f)) \o f

\* str(x) for x a float or None
PyStr(v) ==
  IF v = None THEN <<"N", "o", "n", "e">>
  ELSE NatToChars(v.num \div v.den) \o <<".">> \o (IF v.den = 1 THEN <<"0">> ELSE FracChars(v))

----------------------------------------------------------------------------
(* Review elements as the driver shows them.                                *)
(*   valBody     text of span[data-hook="review-body"] when the element is  *)
(*               validated (<<>>: no such span)                             *)
(*   hasStar     a star icon is present                                     *)
(*   ratingTexts text found by each rating selector, in order (<<>>: the    *)
(*               selector finds nothing)                                    *)
(*   titleTexts  the same for the title selectors                           *)
(*   bodyTexts   the same for the body selectors, when the data is read     *)
(*   fullText    element.text                                               *)
(*   reviewerText, dateText  text of span.a-profile-name and of the review  *)
(*               date span (<<>>: no such span)                             *)
(*   idFound     '[data-review-id], [id*="review"]' finds an element        *)
(*   dataReviewId, idAttr  that element's two attributes (<<>>: empty)      *)

MinTextLen == 20

ValidateMinLen == 10

TitlePrefixLen == 20

TextPrefixLen == 100

OutOf == <<"o", "u", "t", " ", "o", "f", " ">>

Stars == <<" ", "s", "t", "a", "r", "s">>

RECURSIVE SkipDigits(_, _)
SkipDigits(s, i) == IF i <= Len(s) /\ s[i] \in Digits THEN SkipDigits(s, i + 1) ELSE i

RECURSIVE SkipWs(_, _)
SkipWs(s, i) == IF i <= Len(s) /\ s[i] \in Whitespace THEN SkipWs(s, i + 1) ELSE i

HasAt(s, i, lit) == i + Len(lit) - 1 <= Len(s) /\ SubSeq(s, i, i + Len(lit) - 1) = lit

\* re.sub(r'^\d+\.?\d*\s+out of \d+ stars\s*', '', title)
StripStarsPrefix(s) ==
  LET a == SkipDigits(s, 1)
      b == IF a <= Len(s) /\ s[a] = "." THEN SkipDigits(s, a + 1) ELSE a
      c == SkipWs(s, b)
      d == c + Len(OutOf)
      e == SkipDigits(s, d)
      f == e + Len(Stars)
  IN  IF a > 1 /\ c > b /\ HasAt(s, c, OutOf) /\ e > d /\ HasAt(s, e, Stars)
      THEN From(s, SkipWs(s, f))
      ELSE s

\* the reviewer recorded when the element shows no profile name
AmazonCustomer == <<"A", "m", "a", "z", "o", "n", " ", "C", "u", "s", "t", "o", "m", "e", "r">>

\* validate_review_element
validate_review_element(e) ==
  /\ e.valBody # <<>>
  /\ e.hasStar
  /\ Strip(e.valBody) # <<>>
  /\ Len(Strip(e.valBody)) > ValidateMinLen

\* find_review_elements: the elements of the first selector that finds any, validated;
\* the XPath strategies when that leaves nothing
find_review_elements(content) ==
  LET valid == SelectSeq(content.css, validate_review_element)
  IN  IF valid # <<>> THEN valid ELSE SelectSeq(content.xpath, validate_review_element)

\* the first selector tried whose text is accepted, 0 when none is; hits[i] says
\* whether the text of selector i is accepted
FirstHit(hits) ==
  IF \E i \in 1..Len(hits) : hits[i]
  THEN CHOOSE i \in 1..Len(hits) : hits[i] /\ \A j \in 1..(i - 1) : ~hits[j]
  ELSE 0

\* rating of extract_review_data: the first selector with a decimal number in its text
ReviewRatingAccepts(t) == Strip(t) # <<>> /\ FirstDecimal(Strip(t)) # None

ReviewRating(e) ==
  LET i == FirstHit([k \in 1..Len(e.ratingTexts) |-> ReviewRatingAccepts(e.ratingTexts[k])])
  IN  IF i = 0 THEN None ELSE FirstDecimal(Strip(e.ratingTexts[i]))

\* `lit in s`
Contains(s, lit) == \E i \in 1..Len(s) : HasAt(s, i, lit)

\* s.replace('.', '').isdigit()
IsDigitsAndDots(s) ==
  /\ \A i \in 1..Len(s) : s[i] \in Digits \cup {"."}
  /\ \E i \in 1..Len(s) : s[i] \in Digits

\* _extract_product_rating: the first selector whose text holds a decimal number
\* between 1 and 5; None stands for the "No rating" the record starts with
ProductRatingAccepts(t) ==
  t # <<>> /\ FirstDecimal(t) # None /\ InRatingRange(FirstDecimal(t))

ProductRating(texts) ==
  LET i == FirstHit([k \in 1..Len(texts) |-> ProductRatingAccepts(texts[k])])
  IN  IF i = 0 THEN None ELSE FirstDecimal(texts[i])

\* rating of one search result in search_products
SearchRatingAccepts(t) ==
  /\ t # <<>>
  /\ Contains(t, OutOf) \/ IsDigitsAndDots(t)
  /\ FirstDecimal(t) # None
  /\ InRatingRange(FirstDecimal(t))

SearchRating(texts) ==
  LET i == FirstHit([k \in 1..Len(texts) |-> SearchRatingAccepts(texts[k])])
  IN  IF i = 0 THEN None ELSE FirstDecimal(texts[i])

NonBlank(t) == Strip(t) # <<>>

\* title of extract_review_data
ReviewTitle(e) ==
  LET i == FirstHit([k \in 1..Len(e.titleTexts) |-> NonBlank(e.titleTexts[k])])
  IN  IF i = 0 THEN <<>> ELSE StripStarsPrefix(Strip(e.titleTexts[i]))

\* body of extract_review_data through a dedicated body selector
SelectorBody(e) ==
  LET i == FirstHit([k \in 1..Len(e.bodyTexts) |-> NonBlank(e.bodyTexts[k])])
  IN  IF i = 0 THEN <<>> ELSE CollapseWs(Strip(e.bodyTexts[i]))

\* body of extract_review_data through the longest line of element.text
FallbackBody(e) == Strip(LongestLine(SplitLines(Strip(e.fullText))))

ReviewText(e) == IF SelectorBody(e) # <<>> THEN SelectorBody(e) ELSE FallbackBody(e)

\* extract_review_data
extract_review_data(e) ==
  [rating |-> ReviewRating(e), title |-> ReviewTitle(e), text |-> ReviewText(e),
   reviewer |-> IF e.reviewerText # <<>> THEN Strip(e.reviewerText) ELSE AmazonCustomer,
   date |-> Strip(e.dateText)]

\* the site's own id of a review: data-review-id, or else id
NativeId(e) == IF e.dataReviewId # <<>> THEN e.dataReviewId ELSE e.idAttr

\* hashlib.md5(f"{title[:20]}|{rating}|{text[:100]}".encode()).hexdigest()[:16]
Fingerprint(d, review_text) ==
  <<"#">> \o Take(d.title, TitlePrefixLen) \o <<"|">> \o PyStr(d.rating) \o <<"|">>
          \o Take(review_text, TextPrefixLen)

\* review_id of extract_reviews_from_current_page
ReviewId(e, d, review_text) == IF e.idFound THEN NativeId(e) ELSE Fingerprint(d, review_text)

\* the identity of a review: its site id, or its fingerprint when it has none
Identity(e, d, review_text) ==
  IF e.idFound /\ NativeId(e) # <<>> THEN NativeId(e) ELSE Fingerprint(d, review_text)

\* what the loop body of extract_reviews_from_current_page reads from one element:
\* review_data, review_text and review_id (and, as history, the review's identity)
Harvest(e) ==
  LET d == extract_review_data(e)
      review_text == Strip(d.text)
  IN  [data |-> d, review_text |-> review_text, review_id |-> ReviewId(e, d, review_text),
       key |-> Identity(e, d, review_text)]

\* the text filter of extract_reviews_from_current_page
TextTooShort(review_text) == review_text = <<>> \/ Len(review_text) < MinTextLen

\* `review_id and review_id in collected_review_ids`
IsDuplicate(review_id, ids) == review_id # <<>> /\ review_id \in ids

\* a tagger that numbers every record as page 1
TaggedFirst(d, page_num) == [k \in DOMAIN d \cup {"page"} |-> IF k = "page" THEN 1 ELSE d[k]]

\* review_data['page'] = page_num
Tagged(d, page_num) ==
  [k \in DOMAIN d \cup {"page"} |-> IF k = "page" THEN page_num ELSE d[k]]

\* one turn of the loop of extract_reviews_from_current_page; acc is [reviews, ids,
\* kept]: the page's records, collected_review_ids, and as history the review_id and
\* the identity under which each record was kept
ExtractOne(acc, h, page_num) ==
  IF TextTooShort(h.review_text) THEN acc
  ELSE IF IsDuplicate(h.review_id, acc.ids) THEN acc
  ELSE [reviews |-> Append(acc.reviews, Tagged(h.data, page_num)),
        ids |-> IF h.review_id # <<>> THEN acc.ids \cup {h.review_id} ELSE acc.ids,
        kept |-> Append(acc.kept, [id |-> h.review_id, key |-> h.key])]

RECURSIVE ExtractAll(_, _, _)
ExtractAll(acc, harvest, page_num) ==
  IF harvest = <<>> THEN acc
  ELSE ExtractAll(ExtractOne(acc, Head(harvest), page_num), Tail(harvest), page_num)

\* extract_reviews_from_current_page, given what its loop reads from the elements that
\* find_review_elements returned
extract_reviews_from_current_page(harvest, page_num, collected_review_ids) ==
  ExtractAll([reviews |-> <<>>, ids |-> collected_review_ids, kept |-> <<>>],
             harvest, page_num)

----------------------------------------------------------------------------
(* The review pages the browser can show: a site is a list of pages, each   *)
(* a list of review elements.                                               *)

Letter(k) == <<"a", "b", "c", "d", "e", "f", "g", "h", "i", "j", "k", "l", "m">>[k]

Stars45 == <<"4", ".", "5", " ", "o", "u", "t", " ", "o", "f", " ", "5", " ", "s", "t", "a", "r", "s">>

Stars0 == <<"0", ".", "0", " ", "o", "u", "t", " ", "o", "f", " ", "5", " ", "s", "t", "a", "r", "s">>

Stars10 == <<"1", "0", " ", "o", "u", "t", " ", "o", "f", " ", "1", "0">>

\* a review whose body span is read the same at validation and at extraction
Elem(title, rating, body, found, rid) ==
  [valBody |-> body, hasStar |-> TRUE, ratingTexts |-> <<rating>>, titleTexts |-> <<title>>,
   bodyTexts |-> <<body>>, fullText |-> title \o <<"\n">> \o body,
   reviewerText |-> <<>>, dateText |-> <<>>,
   idFound |-> found, dataReviewId |-> rid, idAttr |-> <<>>]

\* a review whose body span is gone when its data is read: only element.text is left
StaleElem(title, rating, body, full, found, rid) ==
  [valBody |-> body, hasStar |-> TRUE, ratingTexts |-> <<rating>>, titleTexts |-> <<title>>,
   bodyTexts |-> <<>>, fullText |-> full,
   reviewerText |-> <<>>, dateText |-> <<>>,
   idFound |-> found, dataReviewId |-> rid, idAttr |-> <<>>]

\* review i of page n of the shop: unique text, unique site id
ShopReview(n, i) ==
  Elem(Stars45 \o <<"\n", "T", Letter(n), Letter(i)>>, Stars45,
       <<Letter(n), Letter(i)>> \o Rep("x", 20), TRUE, <<"R", Letter(n), Letter(i)>>)

\* a review without a site id, told apart by its first letter
AnonReview(k, len) == Elem(<<"T">>, Stars45, <<Letter(k)>> \o Rep("y", len - 1), FALSE, <<>>)

\* two reviews that differ only after their first 100 characters
LongReview(k) == Elem(<<"T">>, Stars45, Rep("z", 100) \o <<Letter(k)>>, FALSE, <<>>)

\* a review whose id element carries data-review-id=""
EmptyIdReview(k) == Elem(<<"T">>, Stars45, <<Letter(k)>> \o Rep("w", 24), TRUE, <<>>)

\* a review with a site id and the given body
IdReview(k, body) == Elem(<<"T">>, Stars45, body, TRUE, <<"R", Letter(k)>>)

\* a review rated outside 1..5
RatedReview(k, rating) == Elem(<<"T">>, rating, <<Letter(k)>> \o Rep("v", 24), TRUE, <<"Q", Letter(k)>>)

\* element.text whose longest line is 20 characters long with runs of blanks in it
GappedLine == <<"o", "k">> \o Rep(" ", 16) \o <<"o", "k">>

GappedReview(k) ==
  StaleElem(<<"T">>, Stars45, Rep("u", 12), <<"T", "\n">> \o GappedLine \o <<"\n", "e", "n", "d">>,
            TRUE, <<"G", Letter(k)>>)

\* element.text whose longest line is a plain line of 24 characters
PlainLineReview(k) ==
  StaleElem(<<"T">>, Stars45, Rep("u", 12), <<"T", "\n", Letter(k)>> \o Rep("t", 23),
            TRUE, <<"P", Letter(k)>>)

Sites == {"shop", "anon", "messy", "none", "bare"}

Page(elements) == [css |-> elements, xpath |-> <<>>]

NoReviews == Page(<<>>)

\* number of review pages a site has
LastPage(s) == IF s \in {"none", "bare"} THEN 1 ELSE 3

\* what page n of site s shows
SiteContent(s, n) ==
  CASE s = "shop" /\ n \in 1..3 ->
         Page([i \in 1..5 |-> ShopReview(n, i)])
    [] s = "anon" /\ n = 1 ->
         Page(<<AnonReview(1, 25), AnonReview(2, 25), AnonReview(1, 25)>>)
    [] s = "anon" /\ n = 2 ->
         Page(<<AnonReview(1, 25), AnonReview(3, 20), LongReview(1)>>)
    [] s = "anon" /\ n = 3 ->
         Page(<<LongReview(2), AnonReview(4, 19), AnonReview(2, 25)>>)
    [] s = "messy" /\ n = 1 ->
         Page(<<IdReview(1, Rep("s", 30)), IdReview(2, Rep("s", 19)), EmptyIdReview(3),
                PlainLineReview(4)>>)
    [] s = "messy" /\ n = 2 ->
         [css |-> <<IdReview(5, Rep("s", 5))>>,
          xpath |-> <<IdReview(1, Rep("s", 30)), EmptyIdReview(3), RatedReview(6, Stars10)>>]
    [] s = "messy" /\ n = 3 ->
         Page(<<GappedReview(7), RatedReview(8, Stars0), IdReview(2, Rep("r", 40))>>)
    [] OTHER -> NoReviews

\* the pages of every site
SitePages == [s \in Sites |-> [n \in 1..LastPage(s) |-> SiteContent(s, n)]]

\* what extract_reviews_from_current_page reads on each page of every site: the
\* elements of find_review_elements, each as the loop body reads it
SiteHarvest ==
  [s \in Sites |->
     [n \in 1..LastPage(s) |->
        LET es == find_review_elements(SitePages[s][n])
        IN  [i \in 1..Len(es) |-> Harvest(es[i])]]]

----------------------------------------------------------------------------
(* What the browser shows.                                                  *)
(*   path       "search" (result list), "reviews" (/product-reviews/..),    *)
(*              "signin" (/ap/signin), "mfa" (two-step verification),       *)
(*              "dp" (a product page, /dp/..)                               *)
(*   returnTo   the sign-in URL carries the review URL it came from         *)
(*   actual     the page of the review list on display (0: none)            *)
(*   param      the URL's pageNumber= parameter (0: absent)                 *)
(*   indicator  the number in li.a-selected (0: absent)                     *)
(*   title      driver.title, lower case                                    *)
(*   ref        the rest of the URL                                         *)

ReviewsView(n, param, indicator, ref) ==
  [path |-> "reviews", returnTo |-> FALSE, actual |-> n, param |-> param,
   indicator |-> indicator, title |-> "amazon.com: customer reviews", ref |-> ref]

SigninView(returnTo) ==
  [path |-> "signin", returnTo |-> returnTo, actual |-> 0, param |-> 0,
   indicator |-> 0, title |-> "amazon sign-in", ref |-> 0]

MfaView ==
  [path |-> "mfa", returnTo |-> FALSE, actual |-> 0, param |-> 0,
   indicator |-> 0, title |-> "two-step verification", ref |-> 0]

DpView ==
  [path |-> "dp", returnTo |-> FALSE, actual |-> 0, param |-> 0,
   indicator |-> 0, title |-> "amazon.com: product", ref |-> 0]

SearchView ==
  [path |-> "search", returnTo |-> FALSE, actual |-> 0, param |-> 0,
   indicator |-> 0, title |-> "amazon.com : search", ref |-> 0]

\* driver.current_url
Url(v) == [path |-> v.path, returnTo |-> v.returnTo, param |-> v.param, ref |-> v.ref]

\* '/ap/signin' in current_url
UrlHasSignin(v) == v.path = "signin"

\* 'product-reviews' in current_url: the review URL itself, or a sign-in URL that
\* carries it as its return address
UrlHasProductReviews(v) == v.path = "reviews" \/ (v.path = "signin" /\ v.returnTo)

\* 'dp/' in current_url
UrlHasDp(v) == v.path = "dp"

\* 'product' in current_url
UrlHasProduct(v) == UrlHasProductReviews(v) \/ v.path = "dp"

\* 'sign in' in title
TitleHasSignIn(v) == v.title \in {"sign in", "amazon sign in"}

\* 'amazon sign-in' in title
TitleHasAmazonSignIn(v) == v.title = "amazon sign-in"

\* 'login' in title and 'amazon' in title
TitleHasAmazonLogin(v) == v.title = "amazon login"

\* 'amazon' in title
TitleHasAmazon(v) == v.title \notin {"sign in", "two-step verification"}

\* 'customer reviews' in title
TitleHasCustomerReviews(v) == v.title = "amazon.com: customer reviews"

\* 'signin' in page_source: every page links to /ap/signin, but for the review page
\* of the site "bare"
SourceHasSignin(s, v) == v.path # "reviews" \/ s # "bare"

\* the first review page as the review URL shows it; the site "messy" has no
\* li.a-selected
FirstReviews(s) == ReviewsView(1, 0, IF s = "messy" THEN 0 ELSE 1, 0)

\* where the browser can be when a scrape starts: on the result list of the search, on
\* a sign-in page, or on the review page an earlier scrape left
InitialViews(s) == {SearchView, SigninView(FALSE), FirstReviews(s)}

\* where driver.get(review url) can end
GetViews(s) == {FirstReviews(s), SigninView(TRUE), SigninView(FALSE), DpView}

\* where a submitted sign-in form, or the operator, can leave the browser
AfterLoginViews(s) == {FirstReviews(s), SigninView(TRUE), MfaView}

\* where the next-page control of a review page leads when it works: "shop" and
\* "messy" put pageNumber= in the URL, "anon" only moves li.a-selected, and "messy"
\* can also show neither
NextViews(s, v) ==
  IF v.actual >= LastPage(s) THEN {}
  ELSE CASE s = "anon" -> {ReviewsView(v.actual + 1, 0, v.actual + 1, 1 - v.ref)}
         [] s = "messy" -> {ReviewsView(v.actual + 1, v.actual + 1, 0, v.ref),
                            ReviewsView(v.actual + 1, 0, 0, 1 - v.ref)}
         [] OTHER -> {ReviewsView(v.actual + 1, v.actual + 1, v.actual + 1, v.ref)}

\* where a click on a next-page control can leave the browser: where it was, on the
\* same page under another URL, back on page 1, or on the next page
ClickViews(s, v) ==
  IF v.path = "reviews"
  THEN {v, [v EXCEPT !.ref = 1 - @], ReviewsView(1, 1, FirstReviews(s).indicator, v.ref)}
         \cup NextViews(s, v)
  ELSE {v}

\* the review elements of the page on display
Content(s, v) == IF v.path = "reviews" THEN SitePages[s][v.actual] ELSE NoReviews

\* driver.find_elements('div[data-hook="review"], div[data-hook="cr-review"]')
HasReviewElements(s, v) == Content(s, v).css # <<>>

\* a check that goes by the login indicators alone
IndicatorsOnly(s, v, open) ==
  /\ open
  /\ \/ UrlHasSignin(v)
     \/ TitleHasSignIn(v)
     \/ SourceHasSignin(s, v)
     \/ TitleHasAmazonSignIn(v)
     \/ TitleHasAmazonLogin(v)

\* _is_login_page; a driver that raises makes it answer False
is_login_page(s, v, open) ==
  /\ open
  /\ ~HasReviewElements(s, v)
  /\ \/ UrlHasSignin(v)
     \/ TitleHasSignIn(v)
     \/ SourceHasSignin(s, v)
     \/ TitleHasAmazonSignIn(v)
     \/ TitleHasAmazonLogin(v)

\* _verify_login_success; a driver that raises makes it answer False
verify_login_success(s, v, open) ==
  /\ open
  /\ \/ UrlHasProductReviews(v)
     \/ UrlHasDp(v)
     \/ (UrlHasProduct(v) /\ TitleHasAmazon(v))
     \/ TitleHasCustomerReviews(v)
     \/ ~is_login_page(s, v, open)

\* _check_for_2fa
check_for_2fa(v, open) == open /\ v.path = "mfa"

\* get_current_page_number
get_current_page_number(v, open) ==
  IF ~open THEN 1
  ELSE IF v.param # 0 THEN v.param
  ELSE IF v.indicator # 0 THEN v.indicator
  ELSE 1

----------------------------------------------------------------------------
(* One scrape_reviews_for_product session                                   *)

MaxPagesBound == 4

MaxRetriesBound == 2

\* max_retries=2, the default of AmazonAutoLogin, which the scraper never overrides
DefaultMaxRetries == 2

\* next_button_selectors of click_next_page_button; the last one, a:contains("Next"),
\* is no CSS selector and always raises
NextButtonSelectors == 6

VARIABLES
  auto_login,            \* the scraper has credentials (self.auto_login is not None)
  max_retries,           \* AmazonAutoLogin.max_retries
  max_pages,             \* the page budget
  review_keyword,        \* a keyword filter was supplied
  site,                  \* the review pages of the product
  driver_open,           \* the driver has not been quit
  view,                  \* what the browser shows
  pc,                    \* where the scrape worker is
  page,                  \* loop variable of _scrape_reviews_from_pages
  sel,                   \* next selector to try inside click_next_page_button
  attempt,               \* loop variable of handle_login_automatically
  attempt_ok,            \* result of _attempt_automatic_login
  attempt_log,           \* history: the controls the login form of the current attempt
                         \* held and the steps the attempt performed on it
  login_success,         \* what handle_login_automatically returned ("unset" before)
  login_decision,        \* what _handle_login_for_reviews returned ("none" before)
  all_reviews,
  collected_review_ids,
  returned,              \* the value scrape_reviews_for_product returned
  notified,              \* the update_gui notifications sent, as <<type, text>>
  kept,                  \* history: for each record of all_reviews its review_id, the
                         \* identity of its review, the page the browser was on and
                         \* the page number get_current_page_number detects there
  met,                   \* history: identities of the reviews that passed the text filter
  advLog,                \* history: for each click_next_page_button call its result and
                         \* whether it returned from a click
  visited,               \* history: the page on display at each page extraction
  manual_entered,        \* history: _manual_login_fallback was entered
  still_login,           \* history: a login page was on display after every attempt so far
  filter_tried,          \* history: apply_review_keyword_filter was called
  extracted,             \* the last rating or review count read outside a review
                         \* session: which extractor, what the selectors found, the
                         \* rating and the count stored
  search_button,         \* the Search button is enabled
  scrape_button,         \* the Scrape button is enabled
  stop_button,           \* the Stop button is enabled
  stop_event,            \* threading.Event of the application
  search_pc,             \* where the search worker is ("idle": no such thread)
  search_results,        \* the result list shows products
  selected_product,      \* a product is selected
  joining,               \* the GUI thread is inside scraping_thread.join(timeout=5.0)
  csv,                   \* the file save_reviews_to_csv wrote last: its columns and rows
  orphans                \* browsers setup_stealth_driver opened that were never quit and
                         \* that self.driver no longer refers to

vars ==
  <<auto_login, max_retries, max_pages, review_keyword, site, driver_open, view, pc, page,
    sel, attempt, attempt_ok, attempt_log, login_success, login_decision, all_reviews,
    collected_review_ids, returned, notified, kept, met, advLog, visited,
    manual_entered, still_login, filter_tried, extracted, search_button, scrape_button,
    stop_button, stop_event, search_pc, search_results, selected_product, joining, csv,
    orphans>>

\* what a review session leaves as it found it
\* the application's own state
gui ==
  <<search_button, scrape_button, stop_button, stop_event, search_pc, search_results,
    selected_product, joining, csv, orphans>>

\* what a scrape worker never writes
config == <<auto_login, max_retries, max_pages, review_keyword, site, extracted, gui>>

session == <<all_reviews, collected_review_ids, kept, met, visited>>

login == <<attempt, attempt_ok, attempt_log, login_success, manual_entered, still_login>>

\* no attempt under way
NoAttempt == [form |-> <<>>, steps |-> <<>>, challenged |-> FALSE]

NoRating == [by |-> "none", texts |-> <<>>, rating |-> None, count |-> <<>>]

NoFile == [columns |-> <<>>, rows |-> <<>>]

\* the application while the one scrape worker it started runs and nothing else happens
Attended ==
  /\ search_button = TRUE
  /\ scrape_button = FALSE
  /\ stop_button = TRUE
  /\ stop_event = FALSE
  /\ search_pc = "idle"
  /\ search_results = TRUE
  /\ selected_product = TRUE
  /\ joining = FALSE
  /\ csv = NoFile
  /\ orphans = 0

\* _initialize_scraping_session, with the driver wherever earlier work left it
Fresh ==
  /\ Attended
  /\ driver_open = TRUE
  /\ view \in InitialViews(site)
  /\ pc = "start"
  /\ page = 1
  /\ sel = 0
  /\ attempt = 0
  /\ attempt_ok = FALSE
  /\ attempt_log = NoAttempt
  /\ login_success = "unset"
  /\ login_decision = "none"
  /\ all_reviews = <<>>
  /\ collected_review_ids = {}
  /\ returned = <<>>
  /\ notified = {}
  /\ kept = <<>>
  /\ met = {}
  /\ advLog = <<>>
  /\ visited = <<>>
  /\ manual_entered = FALSE
  /\ still_login = FALSE
  /\ filter_tried = FALSE
  /\ extracted = NoRating

\* the scraper as the application builds it: AmazonAutoLogin(email, password) when
\* there are credentials
Init ==
  /\ auto_login \in BOOLEAN
  /\ max_retries = DefaultMaxRetries
  /\ max_pages \in 1..MaxPagesBound
  /\ review_keyword \in BOOLEAN
  /\ site \in Sites
  /\ Fresh

\* AmazonAutoLogin built with any max_retries
InitLogin ==
  /\ auto_login = TRUE
  /\ max_retries \in 0..MaxRetriesBound
  /\ max_pages \in 1..2
  /\ review_keyword \in BOOLEAN
  /\ site \in {"shop", "none", "bare"}
  /\ Fresh

Notify(type, text) == notified' = notified \cup {<<type, text>>}

\* an aggregation that keeps only the newest page
ExtendDropping(all, page_reviews) == page_reviews

\* all_reviews.extend(page_reviews)
Extend(all, page_reviews) == all \o page_reviews

\* an orchestrator that goes on whatever the login step reports
NeverStops(ok) == FALSE

\* `if not self._handle_login_for_reviews(url): return all_reviews`
StopsOnLoginFailure(ok) == ~ok

\* a return that hands back nothing
ReturnNothing(all) == <<>>

\* the value of every `return all_reviews` of scrape_reviews_for_product
Return(all) == all

\* the supervisory layer closes the driver (close_driver) while the worker runs
CloseDriver ==
  /\ pc # "done"
  /\ driver_open
  /\ driver_open' = FALSE
  /\ Notify("status", "Browser closed")
  /\ UNCHANGED <<config, view, pc, page, sel, login, login_decision, session, returned,
                 advLog, filter_tried>>

\* an exception reaches the except clause of scrape_reviews_for_product: driver.get,
\* driver.refresh or input() failed inside the login step, or the driver was gone when
\* _handle_login_for_reviews read its location
Raise ==
  /\ \/ pc = "start" /\ ~auto_login /\ ~driver_open
     \/ pc \in {"lsm_get", "lsm_manual", "lsm_reload"}
     \/ pc = "lsm_verify" /\ ~(attempt_ok /\ verify_login_success(site, view, driver_open))
                          /\ attempt < max_retries
  /\ Notify("error", "Error during scraping")
  /\ returned' = Return(all_reviews)
  /\ pc' = "done"
  /\ UNCHANGED <<config, driver_open, view, page, sel, login, login_decision, session,
                 advLog, filter_tried>>

\* the outcome of _handle_login_for_reviews reaches scrape_reviews_for_product
LoginOutcome(ok) ==
  /\ login_decision' = IF ok THEN "proceed" ELSE "abort"
  /\ IF StopsOnLoginFailure(ok)
     THEN /\ returned' = Return(all_reviews)
          /\ pc' = "done"
     ELSE /\ returned' = returned
          /\ pc' = "filter"

\* _handle_login_for_reviews, entry: with credentials the login state machine runs;
\* without, the location and the title decide
HandleLoginForReviews ==
  /\ pc = "start"
  /\ IF auto_login
     THEN /\ pc' = "lsm_get"
          /\ UNCHANGED <<login_decision, returned, notified>>
     ELSE /\ driver_open
          /\ IF UrlHasSignin(view) \/ TitleHasSignIn(view)
             THEN /\ Notify("status", "Login required - please login manually in browser")
                  /\ LoginOutcome(FALSE)
             ELSE /\ UNCHANGED notified
                  /\ LoginOutcome(TRUE)
  /\ UNCHANGED <<config, driver_open, view, page, sel, login, session, advLog,
                 filter_tried>>

\* `if not self._is_login_page(driver) or 'dp/' in current_url`
NoLoginRequired(s, v) == ~is_login_page(s, v, TRUE) \/ UrlHasDp(v)

\* handle_login_automatically up to its loop: driver.get(url), then the check whether
\* a login is required
LsmNavigate ==
  /\ pc = "lsm_get"
  /\ driver_open
  /\ \E v \in GetViews(site) :
       /\ view' = v
       /\ IF NoLoginRequired(site, v)
          THEN /\ login_success' = "true"
               /\ pc' = "login_ret"
               /\ UNCHANGED <<attempt, manual_entered, still_login>>
          ELSE /\ login_success' = login_success
               /\ still_login' = TRUE
               /\ IF 1 <= max_retries
                  THEN attempt' = 1 /\ pc' = "lsm_attempt" /\ UNCHANGED manual_entered
                  ELSE attempt' = attempt /\ pc' = "lsm_manual" /\ manual_entered' = TRUE
  /\ UNCHANGED <<config, driver_open, page, sel, attempt_ok, attempt_log, login_decision,
                 session, returned, notified, advLog, filter_tried>>

\* the login forms an attempt can meet: which of the email field, the continue
\* control, the password field and the sign-in control can be located
Forms == [email : BOOLEAN, continue : BOOLEAN, password : BOOLEAN, signin : BOOLEAN]

\* an attempt that carries on whatever a step reported
CarriesOn(found) == FALSE

\* `if not self._fill_...(driver): return False`
GivesUp(found) == ~found

\* _attempt_automatic_login up to the two-factor check: the steps performed on the
\* form and whether the form was submitted
attempt_automatic_login(form) ==
  LET email == IF form.email THEN <<"email">> ELSE <<>>
      continue == IF form.continue THEN <<"continue">> ELSE <<>>
      password == IF form.password THEN <<"password">> ELSE <<>>
      signin == IF form.signin THEN <<"signin">> ELSE <<>>
  IN  IF GivesUp(form.email) THEN [submitted |-> FALSE, steps |-> email]
      ELSE IF GivesUp(form.password)
        THEN [submitted |-> FALSE, steps |-> email \o continue \o password]
      ELSE IF GivesUp(form.signin)
        THEN [submitted |-> FALSE, steps |-> email \o continue \o password \o signin]
      ELSE [submitted |-> TRUE, steps |-> email \o continue \o password \o signin]

\* _attempt_automatic_login up to the two-factor wait: a field or the sign-in control
\* is missing (with the driver gone every lookup fails), or the form is submitted
AttemptAutomaticLogin ==
  /\ pc = "lsm_attempt"
  /\ \E form \in (IF driver_open THEN Forms
                  ELSE {[email |-> FALSE, continue |-> FALSE, password |-> FALSE,
                         signin |-> FALSE]}) :
       LET r == attempt_automatic_login(form)
       IN  /\ IF r.submitted
              THEN \E v \in AfterLoginViews(site) \cup {view} :
                     /\ view' = v
                     /\ attempt_log' = [form |-> form, steps |-> r.steps,
                                        challenged |-> check_for_2fa(v, TRUE)]
                     /\ IF check_for_2fa(v, TRUE)
                        THEN pc' = "lsm_2fa" /\ attempt_ok' = attempt_ok
                        ELSE pc' = "lsm_verify" /\ attempt_ok' = TRUE
              ELSE /\ attempt_log' = [form |-> form, steps |-> r.steps, challenged |-> FALSE]
                   /\ attempt_ok' = FALSE
                   /\ pc' = "lsm_verify"
                   /\ view' = view
  /\ UNCHANGED <<config, driver_open, page, sel, attempt, login_success, manual_entered,
                 still_login, login_decision, session, returned, notified, advLog,
                 filter_tried>>

\* a two-factor step that takes the operator's word
TwoFactorTrusted(s, v, open) == TRUE

\* `if self._is_login_page(driver): return False`, else True
TwoFactorResult(s, v, open) == ~is_login_page(s, v, open)

\* _handle_two_factor_auth after input() returns: the operator has acted on the page
HandleTwoFactorAuth ==
  /\ pc = "lsm_2fa"
  /\ \/ \E v \in (IF driver_open THEN AfterLoginViews(site) ELSE {view}) :
          /\ view' = v
          /\ attempt_ok' = TwoFactorResult(site, v, driver_open)
     \/ /\ view' = view          \* input() raises: the attempt's except clause
        /\ attempt_ok' = FALSE
  /\ pc' = "lsm_verify"
  /\ UNCHANGED <<config, driver_open, page, sel, attempt, attempt_log, login_success,
                 manual_entered,
                 still_login, login_decision, session, returned, notified, advLog,
                 filter_tried>>

\* the positions of the worker inside handle_login_automatically
LoginSteps ==
  {"lsm_get", "lsm_attempt", "lsm_2fa", "lsm_verify", "lsm_manual", "lsm_reload"}

\* a loop that always finds a retry left
RetriesUnbounded(n, retries) == TRUE

\* `if attempt < self.max_retries` (retry) against the fall to the manual fallback
RetriesLeft(n, retries) == n < retries

\* the rest of one turn of the loop of handle_login_automatically: verification, then
\* the refresh before the next attempt, or the manual fallback after the last
VerifyOrRetry ==
  /\ pc = "lsm_verify"
  /\ still_login' = (still_login /\ is_login_page(site, view, TRUE))
  /\ attempt_log' = NoAttempt
  /\ IF attempt_ok /\ verify_login_success(site, view, driver_open)
     THEN /\ login_success' = "true"
          /\ pc' = "login_ret"
          /\ UNCHANGED <<view, attempt, manual_entered>>
     ELSE IF RetriesLeft(attempt, max_retries)
     THEN /\ driver_open
          /\ attempt <= MaxRetriesBound
          /\ view' \in {view, SigninView(TRUE)}
          /\ attempt' = attempt + 1
          /\ pc' = "lsm_attempt"
          /\ UNCHANGED <<login_success, manual_entered>>
     ELSE /\ manual_entered' = TRUE
          /\ pc' = "lsm_manual"
          /\ UNCHANGED <<view, attempt, login_success>>
  /\ UNCHANGED <<config, driver_open, page, sel, attempt_ok, login_decision, session,
                 returned, notified, advLog, filter_tried>>

\* a fallback that takes the operator's word
ManualTrusted(s, v) == TRUE

\* the result of _manual_login_fallback
ManualResult(s, v) == ~is_login_page(s, v, TRUE)

\* _manual_login_fallback: input() returns, the operator has confirmed the login
ManualLoginConfirmed ==
  /\ pc = "lsm_manual"
  /\ pc' = "lsm_reload"
  /\ UNCHANGED <<config, driver_open, view, page, sel, login, login_decision, session,
                 returned, notified, advLog, filter_tried>>

\* _manual_login_fallback after input() returned: driver.get(original_url), then the
\* check
ManualLoginFallback ==
  /\ pc = "lsm_reload"
  /\ driver_open
  /\ \E v \in GetViews(site) :
       /\ view' = v
       /\ login_success' = IF ManualResult(site, v) THEN "true" ELSE "false"
  /\ pc' = "login_ret"
  /\ UNCHANGED <<config, driver_open, page, sel, attempt, attempt_ok, attempt_log,
                 manual_entered, still_login, login_decision, session, returned, notified,
                 advLog, filter_tried>>

\* _handle_login_for_reviews after handle_login_automatically has returned; the locals
\* of the login run are gone
LoginReturned ==
  /\ pc = "login_ret"
  /\ IF login_success = "true"
     THEN /\ UNCHANGED notified
          /\ LoginOutcome(TRUE)
     ELSE /\ Notify("error", "Auto login failed, cannot proceed with scraping.")
          /\ LoginOutcome(FALSE)
  /\ attempt' = 0
  /\ attempt_ok' = FALSE
  /\ attempt_log' = NoAttempt
  /\ manual_entered' = FALSE
  /\ still_login' = FALSE
  /\ UNCHANGED <<config, driver_open, view, page, sel, login_success, session, advLog, filter_tried>>

\* what extract_reviews_from_current_page reads: nothing once the driver has been quit
Readable ==
  IF driver_open /\ view.path = "reviews" THEN SiteHarvest[site][view.actual] ELSE <<>>

\* extract_reviews_from_current_page(driver, tag, collected_review_ids) and the extend
ExtractPage(tag) ==
  LET r == extract_reviews_from_current_page(Readable, tag, collected_review_ids)
  IN  /\ all_reviews' = Extend(all_reviews, r.reviews)
      /\ collected_review_ids' = r.ids
      /\ kept' = kept \o [i \in 1..Len(r.kept) |->
                            [id |-> r.kept[i].id, key |-> r.kept[i].key, at |-> view.actual,
                             detected |-> get_current_page_number(view, driver_open)]]
      /\ met' = met \cup {Readable[i].key : i \in {j \in 1..Len(Readable) :
                                                    ~TextTooShort(Readable[j].review_text)}}
      /\ visited' = Append(visited, IF driver_open THEN view.actual ELSE 0)

\* what apply_review_keyword_filter can meet on the page: the search input and the
\* submit control can be located or not, a driver call past the input raises or not,
\* and the page that follows shows the keyword or not
FilterPages == [input : BOOLEAN, submit : BOOLEAN, raises : BOOLEAN, shown : BOOLEAN]

\* apply_review_keyword_filter with a keyword: its result, how the keyword was
\* submitted, and the status notification that tells the outcome
apply_review_keyword_filter(p) ==
  LET by == IF p.submit THEN "click" ELSE "enter"
  IN  IF ~p.input
        THEN [applied |-> FALSE, submitted |-> "no",
              notes |-> {"Review search input not found - proceeding without filter"}]
      ELSE IF p.raises
        THEN [applied |-> FALSE, submitted |-> "no",
              notes |-> {"Error applying keyword filter"}]
      ELSE IF p.shown
        THEN [applied |-> TRUE, submitted |-> by,
              notes |-> {"Review keyword filter applied successfully"}]
      ELSE [applied |-> FALSE, submitted |-> by,
            notes |-> {"WARNING: Keyword filter may not have been applied"}]

\* a scrape that gives up when the filter was not applied
StopsUnfiltered(filter_applied) == IF filter_applied THEN "extract1" ELSE "finish"

\* _apply_review_filters returns nothing: page 1 is extracted next, filter or not
AfterFilter(filter_applied) == "extract1"

\* _apply_review_filters: with a keyword the filter is tried on the page (with the
\* driver gone no input is found), and the scrape goes on whatever it returned
ApplyReviewFilters ==
  /\ pc = "filter"
  /\ IF review_keyword
     THEN /\ filter_tried' = TRUE
          /\ \E p \in {q \in FilterPages : driver_open \/ ~q.input} :
               LET r == apply_review_keyword_filter(p)
               IN  /\ notified' = notified
                         \cup {<<"status", n>> : n \in r.notes}
                         \cup (IF r.applied THEN {}
                               ELSE {<<"status", "Continuing without keyword filter">>})
                   /\ pc' = AfterFilter(r.applied)
     ELSE /\ UNCHANGED <<filter_tried, notified>>
          /\ pc' = "extract1"
  /\ UNCHANGED <<config, driver_open, view, page, sel, login, login_decision, session,
                 returned, advLog>>

\* page 1 of scrape_reviews_for_product
ExtractFirstPage ==
  /\ pc = "extract1"
  /\ ExtractPage(1)
  /\ page' = 2
  /\ pc' = "loop"
  /\ UNCHANGED <<config, driver_open, view, sel, login, login_decision, returned, notified,
                 advLog, filter_tried>>

\* a loop that ignores the page budget
LoopUnbounded(p, budget) == TRUE

\* for page in range(2, max_pages + 1)
LoopContinues(p, budget) == p <= budget

\* head of the loop of _scrape_reviews_from_pages, and the call of
\* click_next_page_button
NextPage ==
  /\ pc = "loop"
  /\ IF LoopContinues(page, max_pages)
     THEN pc' = "nav" /\ sel' = 1
     ELSE pc' = "finish" /\ UNCHANGED sel
  /\ UNCHANGED <<config, driver_open, view, page, login, login_decision, session, returned,
                 notified, advLog, filter_tried>>

\* a loop that goes on to the page whatever the navigation reported
GoesOn(navigation_success) == "process"

\* `if not navigation_success: ... break`
AfterNavigation(navigation_success) == IF navigation_success THEN "process" ELSE "finish"

\* click_next_page_button returns: True sends the loop on, False breaks it
AdvanceReturns(result, clicked) ==
  /\ advLog' = Append(advLog, [result |-> result, clicked |-> clicked])
  /\ pc' = AfterNavigation(result)
  /\ sel' = 0
  /\ IF result THEN UNCHANGED notified
     ELSE Notify("status", "No next button found - stopping pagination")

\* a navigator that trusts the click
UrlAssumedChanged(before, after) == TRUE

\* current_url_before != current_url_after
UrlChanged(before, after) == before # after

\* click_next_page_button: none of the selectors left gives a usable control (not
\* found, not displayed, or the driver raises before the click); it returns False
AdvanceNoControl ==
  /\ pc = "nav"
  /\ AdvanceReturns(FALSE, FALSE)
  /\ UNCHANGED <<config, driver_open, view, page, login, login_decision, session,
                 returned, filter_tried>>

\* click_next_page_button: selector k is the next to give a usable control, which is
\* clicked; then the location is read and compared, or the driver raises after the
\* click and the loop goes on with selector k + 1
AdvanceClick ==
  /\ pc = "nav"
  /\ driver_open
  /\ \E k \in sel..(NextButtonSelectors - 1) :
       \E v \in ClickViews(site, view) :
         /\ view' = v
         /\ \/ AdvanceReturns(UrlChanged(Url(view), Url(v)), TRUE)
            \/ /\ sel' = k + 1
               /\ UNCHANGED <<pc, advLog, notified>>
  /\ UNCHANGED <<config, driver_open, page, login, login_decision, session, returned,
                 filter_tried>>

\* a loop that stops whenever the detected page is not the expected one
StopsOnAnyMismatch(current_page, expected) == current_page # expected

\* `if current_page != page: ... if current_page == 1: break`
PaginationFailed(current_page, expected) == current_page # expected /\ current_page = 1

\* one page of _scrape_reviews_from_pages after a successful click
ProcessPage ==
  /\ pc = "process"
  /\ LET current_page == get_current_page_number(view, driver_open)
     IN  IF PaginationFailed(current_page, page)
         THEN /\ pc' = "finish"
              /\ notified' = notified \cup {<<"status", "WARNING: Expected page differs">>,
                                             <<"status", "Pagination failed, stopping">>}
              /\ UNCHANGED <<page, session>>
         ELSE /\ ExtractPage(page)
              /\ page' = page + 1
              /\ pc' = "loop"
              /\ IF current_page # page
                 THEN Notify("status", "WARNING: Expected page differs")
                 ELSE UNCHANGED notified
  /\ UNCHANGED <<config, driver_open, view, sel, login, login_decision, returned, advLog,
                 filter_tried>>

\* f'Finished scraping. Total unique reviews collected: {len(all_reviews)}'
FinishedText(n) == "Finished scraping. Total unique reviews collected: " \o ToString(n)

\* the end of scrape_reviews_for_product's try block
Finish ==
  /\ pc = "finish"
  /\ Notify("status", FinishedText(Len(all_reviews)))
  /\ returned' = Return(all_reviews)
  /\ pc' = "done"
  /\ UNCHANGED <<config, driver_open, view, page, sel, login, login_decision, session,
                 advLog, filter_tried>>

Next ==
  \/ CloseDriver
  \/ Raise
  \/ HandleLoginForReviews
  \/ LsmNavigate
  \/ AttemptAutomaticLogin
  \/ HandleTwoFactorAuth
  \/ VerifyOrRetry
  \/ ManualLoginConfirmed
  \/ ManualLoginFallback
  \/ LoginReturned
  \/ ApplyReviewFilters
  \/ ExtractFirstPage
  \/ NextPage
  \/ AdvanceNoControl
  \/ AdvanceClick
  \/ ProcessPage
  \/ Finish

Spec == Init /\ [][Next]_vars

----------------------------------------------------------------------------
(* Python floats: IEEE 754 doubles, every operation rounded to the nearest   *)
(* double, ties to even.  A double is [m, e], worth m * 2^e, with m a        *)
(* natural number of at most 53 bits (54 for 2^53) held as limbs of 15 bits, *)
(* least significant first.                                                 *)

LimbBits == 15

LimbBase == 2 ^ LimbBits

MantissaBits == 53

\* limbs of a natural number below 2^31
BigOfNat(n) == <<n % LimbBase, (n \div LimbBase) % LimbBase, n \div (LimbBase * LimbBase)>>

Limb(x, j) == IF j \in 1..Len(x) THEN x[j] ELSE 0

\* the natural number held by limbs worth less than 2^31
NatOfBig(x) == Limb(x, 1) + Limb(x, 2) * LimbBase + Limb(x, 3) * LimbBase * LimbBase

\* number of bits of a natural number
BitLen(x) ==
  LET used == {j \in 1..Len(x) : x[j] # 0}
  IN  IF used = {} THEN 0
      ELSE LET top == CHOOSE j \in used : \A i \in used : i <= j
           IN  LimbBits * (top - 1)
                 + (CHOOSE b \in 1..LimbBits : 2 ^ (b - 1) <= x[top] /\ x[top] < 2 ^ b)

\* bit i of x, bit 0 the least significant
BitAt(x, i) == (Limb(x, i \div LimbBits + 1) \div 2 ^ (i % LimbBits)) % 2

\* the bits of x below bit n are all zero
LowBitsZero(x, n) ==
  /\ \A j \in 1..(n \div LimbBits) : Limb(x, j) = 0
  /\ Limb(x, n \div LimbBits + 1) % 2 ^ (n % LimbBits) = 0

\* x * 2^(LimbBits * q)
ShiftLimbsLeft(x, q) == [i \in 1..q |-> 0] \o x

\* x \div 2^n
ShiftRight(x, n) ==
  LET q == n \div LimbBits
      r == n % LimbBits
  IN  [j \in 1..(Len(x) - q) |->
         Limb(x, j + q) \div 2 ^ r + (Limb(x, j + q + 1) % 2 ^ r) * 2 ^ (LimbBits - r)]

\* x \div d and x % d for 0 < d <= 1000
RECURSIVE DivSmall(_, _)
DivSmall(x, d) ==
  IF x = <<>> THEN [q |-> <<>>, r |-> 0]
  ELSE LET hi == DivSmall(Tail(x), d)
           cur == hi.r * LimbBase + Head(x)
       IN  [q |-> <<cur \div d>> \o hi.q, r |-> cur % d]

\* x * c + carry for 0 <= c <= 1000
RECURSIVE MulSmall(_, _, _)
MulSmall(x, c, carry) ==
  IF x = <<>> THEN (IF carry = 0 THEN <<>> ELSE <<carry>>)
  ELSE LET t == Head(x) * c + carry
       IN  <<t % LimbBase>> \o MulSmall(Tail(x), c, t \div LimbBase)

\* x + 1
RECURSIVE Inc(_)
Inc(x) ==
  IF x = <<>> THEN <<1>>
  ELSE IF Head(x) + 1 < LimbBase THEN <<Head(x) + 1>> \o Tail(x)
  ELSE <<0>> \o Inc(Tail(x))

\* the double nearest to x * 2^e (plus, when sticky, a fraction of 2^e), ties to even
RoundToDouble(x, e, sticky) ==
  IF BitLen(x) <= MantissaBits THEN [m |-> x, e |-> e]
  ELSE LET sh == BitLen(x) - MantissaBits
           m == ShiftRight(x, sh)
           half == BitAt(x, sh - 1) = 1
           more == sticky \/ ~LowBitsZero(x, sh - 1)
           up == half /\ (more \/ BitAt(m, 0) = 1)
       IN  [m |-> IF up THEN Inc(m) ELSE m, e |-> e + sh]

\* float(s) for a decimal numeral, given as the exact decimal [num, den]
PyFloat(v) ==
  LET d == DivSmall(ShiftLimbsLeft(BigOfNat(v.num), 5), v.den)
  IN  RoundToDouble(d.q, 0 - 5 * LimbBits, d.r # 0)

\* f * (c1 * c2) for naturals c1, c2 <= 1000: one multiplication, rounded once
PyTimes(f, c1, c2) == RoundToDouble(MulSmall(MulSmall(f.m, c1, 0), c2, 0), f.e, FALSE)

\* int(f) for a double f >= 0 below 2^31: the fraction is cut off
PyInt(f) ==
  IF f.e >= 0 THEN NatOfBig(f.m) * 2 ^ f.e ELSE NatOfBig(ShiftRight(f.m, 0 - f.e))

----------------------------------------------------------------------------
(* Review counts.  A selector finds an element with an aria-label and a     *)
(* text, either of which may be empty.                                      *)

Thousand == 1000

Without(s, cs) == SelectSeq(s, LAMBDA c : c \notin cs)

\* re.search(r'(\d+)', s).group(1); <<>> when no match
FirstDigits(s) ==
  IF \A i \in 1..Len(s) : s[i] \notin Digits THEN <<>>
  ELSE LET i == CHOOSE p \in 1..Len(s) : s[p] \in Digits /\ \A q \in 1..(p - 1) : s[q] \notin Digits
       IN  SubSeq(s, i, RunEnd(s, i))

\* re.search(r'([\d,]+)', s).group(1).replace(',', ''); <<>> when no match
FirstDigitsAndCommas(s) ==
  LET in == Digits \cup {","}
  IN  IF \A i \in 1..Len(s) : s[i] \notin in THEN <<>>
      ELSE LET i == CHOOSE p \in 1..Len(s) : s[p] \in in /\ \A q \in 1..(p - 1) : s[q] \notin in
               j == CHOOSE p \in i..Len(s) :
                      /\ \A q \in i..p : s[q] \in in
                      /\ p = Len(s) \/ s[p + 1] \notin in
           IN  Without(SubSeq(s, i, j), {","})

IsDigit(s) == s # <<>> /\ \A i \in 1..Len(s) : s[i] \in Digits

\* str(int(float(match.group(1)) * 1000)) and str(int(num * 1000000))
ScaledCount(s, millions) ==
  NatToChars(PyInt(PyTimes(PyFloat(FirstDecimal(s)), Thousand, IF millions THEN Thousand ELSE 1)))

\* one selector of _extract_product_reviews_count; <<>> when the loop goes on
ProductCountOf(elem) ==
  LET raw == IF elem.aria # <<>> THEN elem.aria ELSE elem.text
      t == Without(raw, {",", " "})
  IN  IF raw = <<>> THEN <<>>
      ELSE IF \E i \in 1..Len(t) : t[i] \in {"K", "k"}
        THEN (IF FirstDecimal(t) = None THEN <<>> ELSE ScaledCount(t, FALSE))
      ELSE IF \E i \in 1..Len(t) : t[i] \in {"M", "m"}
        THEN (IF FirstDecimal(t) = None THEN <<>> ELSE ScaledCount(t, TRUE))
      ELSE IF FirstDigits(t) # <<>> /\ DigitsToNat(FirstDigits(t)) > 0 THEN FirstDigits(t)
      ELSE <<>>

\* one selector of the review-count block of search_amazon_products
SearchCountOf(elem) ==
  LET s == Strip(elem.text)
      t == IF Len(s) >= 2 /\ s[1] = "(" /\ s[Len(s)] = ")" THEN SubSeq(s, 2, Len(s) - 1) ELSE s
  IN  IF /\ elem.aria # <<>>
         /\ Contains(elem.aria, <<"r", "a", "t", "i", "n", "g", "s">>)
         /\ IsDigit(FirstDigitsAndCommas(elem.aria))
        THEN FirstDigitsAndCommas(elem.aria)
      ELSE IF s = <<>> THEN <<>>
      ELSE IF \E i \in 1..Len(t) : t[i] = "K"
        THEN (IF FirstDecimal(t) = None THEN <<>> ELSE ScaledCount(t, FALSE))
      ELSE IF \E i \in 1..Len(t) : t[i] = "M"
        THEN (IF FirstDecimal(t) = None THEN <<>> ELSE ScaledCount(t, TRUE))
      ELSE IF IsDigit(t) THEN t
      ELSE <<>>

\* the count of the first selector that yields one; "0" is what the record starts with
FirstCount(counts) ==
  LET i == FirstHit([k \in 1..Len(counts) |-> counts[k] # <<>>])
  IN  IF i = 0 THEN <<"0">> ELSE counts[i]

ProductReviewsCount(elems) == FirstCount([k \in 1..Len(elems) |-> ProductCountOf(elems[k])])

SearchReviewsCount(elems) == FirstCount([k \in 1..Len(elems) |-> SearchCountOf(elems[k])])

----------------------------------------------------------------------------
(* The three rating extractors on the texts a page can show, one lookup per  *)
(* behaviour                                                                *)

MaxSelectorsHit == 2

Chars5 == <<"5">>

Chars44 == <<"4", ".", "4">>

Chars7 == <<"7">>

Rated3 == <<"R", "a", "t", "e", "d", " ", "3">>

Stars5of5 == <<"5", ".", "0", " ">> \o OutOf \o <<"5">> \o Stars

PriceText == <<"$", "1", "2", ".", "9", "9">>

\* texts a rating selector can find; <<>> when it finds no element or an empty text
RatingTexts ==
  {<<>>, Stars45, Stars0, Stars10, Stars5of5, Chars5, Chars44, Chars7, Rated3, PriceText,
   <<" ">> \o Stars45}

SelectorTexts == UNION {[1..n -> RatingTexts] : n \in 1..MaxSelectorsHit}

RatingProbe(texts) ==
  [ratingTexts |-> texts, titleTexts |-> <<>>, bodyTexts |-> <<>>, fullText |-> <<>>,
   reviewerText |-> <<>>, dateText |-> <<>>]

\* texts a review-count selector can find
CountTexts ==
  {<<>>,
   <<"3", ".", "9", "K">>,
   <<"2", "M">>,
   <<"3", "2", ".", "3", "K">>,
   <<"(", "3", ".", "9", "K", ")">>,
   <<"(", "3", "2", ".", "3", "K", ")">>,
   <<"1", ",", "2", "3", "4", "K">>,
   <<"8", ".", "2", "M">>,
   <<"1", ".", "5", "k">>,
   <<"1", ",", "2", "3", "4">>,
   <<"(", "1", "2", ")">>,
   <<"K">>,
   <<"0">>,
   <<"1", "2", " ", "c", "u", "s", "t", "o", "m", "e", "r", " ", "r", "e", "v", "i", "e", "w", "s">>,
   <<"0", "K">>}

RatingsLabel == <<"3", ",", "9", "4", "3", " ", "r", "a", "t", "i", "n", "g", "s">>

CountElems == [aria : {<<>>, RatingsLabel}, text : CountTexts]

SelectorElems == UNION {[1..n -> CountElems] : n \in 1..MaxSelectorsHit}

\* product pages a lookup can meet:
\*   loads       driver.get(url) returns
\*   blocking    a sign-in or CAPTCHA page is shown instead of the product
\*   asinBy      the first ASIN method that succeeds (0: none of the four)
\*   title       a title selector finds a text longer than 3 characters
\*   priceBy     1: a price selector finds a price, 2: only the body text does, 0: neither
\*   ratingTexts, countElems  what the rating and review-count selectors find
ProductPages ==
  [loads : BOOLEAN, blocking : {"none", "signin", "captcha"}, asinBy : 0..4,
   title : BOOLEAN, priceBy : 0..2,
   ratingTexts : {<<<<>>>>, <<Stars45>>, <<Stars10>>},
   countElems : {<<[aria |-> <<>>, text |-> <<>>]>>,
                 <<[aria |-> <<>>, text |-> <<"3", ".", "9", "K">>]>>,
                 <<[aria |-> <<>>, text |-> <<"0">>]>>}]

\* _initialize_product_info; a rating of None stands for "No rating"
NewProductInfo ==
  [asin |-> "UNKNOWN", title |-> "Title not found", price |-> "Price not available",
   rating |-> None, reviews_count |-> <<"0">>, extraction_errors |-> <<>>]

\* product_info['extraction_errors'].append(note)
Noted(info, note) == [info EXCEPT !.extraction_errors = Append(@, note)]

\* _extract_product_asin: the URL, the ASIN form field, the page source, the title
extract_product_asin(p, info) ==
  IF p.asinBy # 0 THEN [info EXCEPT !.asin = "B0EXAMPLE1"] ELSE info

\* _extract_product_title
extract_product_title(p, info) ==
  IF p.title THEN [info EXCEPT !.title = "title"]
  ELSE Noted(info, "Title not found with any selector")

\* _extract_product_price
extract_product_price(p, info) ==
  IF p.priceBy # 0 THEN [info EXCEPT !.price = "$12.99"]
  ELSE Noted(info, "Price not found with any method")

\* _extract_product_rating
extract_product_rating(p, info) ==
  IF ProductRating(p.ratingTexts) # None
  THEN [info EXCEPT !.rating = ProductRating(p.ratingTexts)]
  ELSE Noted(info, "Rating not found with any selector")

\* _extract_product_reviews_count
extract_product_reviews_count(p, info) ==
  IF \E k \in 1..Len(p.countElems) : ProductCountOf(p.countElems[k]) # <<>>
  THEN [info EXCEPT !.reviews_count = ProductReviewsCount(p.countElems)]
  ELSE Noted(info, "Review count not found with any method")

\* get_product_info_from_url: the record it returns and, as history, the fields whose
\* extractor was called; _validate_product_info changes no field that has its default
get_product_info_from_url(p) ==
  IF ~p.loads
  THEN [info |-> Noted(NewProductInfo, "Critical error"), attempted |-> <<>>]
  ELSE IF p.blocking = "signin"
  THEN [info |-> Noted(NewProductInfo, "Login required"), attempted |-> <<>>]
  ELSE IF p.blocking = "captcha"
  THEN [info |-> Noted(NewProductInfo, "CAPTCHA/robot detection"), attempted |-> <<>>]
  ELSE [info |-> extract_product_reviews_count(p,
                   extract_product_rating(p,
                     extract_product_price(p,
                       extract_product_title(p,
                         extract_product_asin(p, NewProductInfo))))),
        attempted |-> <<"asin", "title", "price", "rating", "reviews_count">>]

InitFields ==
  /\ auto_login = FALSE
  /\ max_retries = DefaultMaxRetries
  /\ max_pages = 1
  /\ review_keyword = FALSE
  /\ site = "none"
  /\ Fresh

session_idle ==
  <<auto_login, max_retries, max_pages, review_keyword, site, driver_open, view, pc, page,
    sel, login, login_decision, session, returned, notified, advLog, filter_tried, gui>>

\* _extract_product_rating on a product page
ExtractProductRating ==
  /\ pc = "start"
  /\ extracted = NoRating
  /\ \E texts \in SelectorTexts :
       extracted' = [by |-> "product", texts |-> texts, rating |-> ProductRating(texts),
                     count |-> <<>>]
  /\ UNCHANGED session_idle

\* the rating block of search_products on one search result
ExtractSearchRating ==
  /\ pc = "start"
  /\ extracted = NoRating
  /\ \E texts \in SelectorTexts :
       extracted' = [by |-> "search", texts |-> texts, rating |-> SearchRating(texts),
                     count |-> <<>>]
  /\ UNCHANGED session_idle

\* the rating block of extract_review_data on one review element
ExtractReviewRating ==
  /\ pc = "start"
  /\ extracted = NoRating
  /\ \E texts \in SelectorTexts :
       extracted' = [by |-> "review", texts |-> texts,
                     rating |-> extract_review_data(RatingProbe(texts)).rating,
                     count |-> <<>>]
  /\ UNCHANGED session_idle

\* _extract_product_reviews_count on a product page
ExtractProductReviewsCount ==
  /\ pc = "start"
  /\ extracted = NoRating
  /\ \E elems \in SelectorElems :
       extracted' = [by |-> "product_count", texts |-> elems, rating |-> None,
                     count |-> ProductReviewsCount(elems)]
  /\ UNCHANGED session_idle

\* the review-count block of search_amazon_products on one search result
ExtractSearchReviewsCount ==
  /\ pc = "start"
  /\ extracted = NoRating
  /\ \E elems \in SelectorElems :
       extracted' = [by |-> "search_count", texts |-> elems, rating |-> None,
                     count |-> SearchReviewsCount(elems)]
  /\ UNCHANGED session_idle

\* the ASIN the i-th result element of a search page carries when it carries one
AsinOf(i) == Rep("B", 9) \o <<DigitChar(i)>>

\* most result elements a search page of the model shows
MaxResults == 3

\* the search pages: each result element has a data-asin of ten characters or none
ResultPages ==
  UNION {[1..n -> BOOLEAN] : n \in 0..MaxResults}

\* element.get_attribute('data-asin') of the i-th result element
DataAsin(valid, i) == IF valid[i] THEN AsinOf(i) ELSE <<>>

\* the loop of search_amazon_products: `for idx, element in enumerate(..., 1)`, elements
\* without a ten-character ASIN skipped, product_info['index'] = idx
search_amazon_products(valid) ==
  LET taken == SelectSeq([i \in 1..Len(valid) |-> i], LAMBDA i : Len(DataAsin(valid, i)) = 10)
  IN  [k \in 1..Len(taken) |-> [index |-> taken[k], asin |-> DataAsin(valid, taken[k])]]

\* display_search_results: one row per product, showing its index and its ASIN
display_search_results(products) ==
  [k \in 1..Len(products) |-> [index |-> products[k].index, asin |-> products[k].asin]]

\* no product selected
NoProduct == [index |-> 0, asin |-> <<>>]

\* on_product_select on a row: index = int(item['values'][0]) - 1, and
\* self.search_results[index] when 0 <= index < len(self.search_results)
on_product_select(results, row, before) ==
  LET index == row.index - 1
  IN  IF 0 <= index /\ index < Len(results) THEN results[index + 1] ELSE before

\* a keyword search shows its results and the operator selects one of the rows
SelectSearchResult ==
  /\ pc = "start"
  /\ extracted = NoRating
  /\ \E valid \in ResultPages :
       LET products == search_amazon_products(valid)
           rows == display_search_results(products)
       IN  \E r \in 1..Len(rows) :
             extracted' = [by |-> "select", texts |-> valid, rating |-> None,
                           count |-> <<>>, row |-> rows[r],
                           selected |-> on_product_select(products, rows[r], NoProduct)]
  /\ UNCHANGED session_idle

\* get_product_info_from_url on one product URL
GetProductInfoFromUrl ==
  /\ pc = "start"
  /\ extracted = NoRating
  /\ \E p \in ProductPages :
       LET r == get_product_info_from_url(p)
       IN  extracted' = [by |-> "lookup", texts |-> p, rating |-> r.info.rating,
                         count |-> r.info.reviews_count, info |-> r.info,
                         attempted |-> r.attempted]
  /\ UNCHANGED session_idle

NextFields ==
  \/ GetProductInfoFromUrl
  \/ SelectSearchResult
  \/ ExtractProductRating
  \/ ExtractSearchRating
  \/ ExtractReviewRating
  \/ ExtractProductReviewsCount
  \/ ExtractSearchReviewsCount

SpecFields == InitFields /\ [][NextFields]_vars

SpecLogin == InitLogin /\ [][Next]_vars

----------------------------------------------------------------------------
(* The application: the GUI thread, one search worker and one scrape worker *)
(* around the one scraper and its driver.  pc = "idle": no scrape worker;   *)
(* pc = "spawned": the worker runs perform_scraping and has not yet called  *)
(* scrape_reviews_for_product.  A callback a worker hands to root.after is  *)
(* run with the step that hands it over.  A scrape started beside a live    *)
(* scrape worker is not followed.                                           *)

\* a browser window just opened
BlankView ==
  [path |-> "blank", returnTo |-> FALSE, actual |-> 0, param |-> 0,
   indicator |-> 0, title |-> "", ref |-> 0]

column_order == <<"asin", "rating", "title", "text", "reviewer", "date", "page">>

\* pd.DataFrame(reviews).columns: the keys of the records
Columns(reviews) == UNION {DOMAIN reviews[i] : i \in 1..Len(reviews)}

\* save_reviews_to_csv for a non-empty list: df[existing_columns].to_csv(...)
save_reviews_to_csv(reviews) ==
  LET existing_columns == SelectSeq(column_order, LAMBDA col : col \in Columns(reviews))
      cols == {existing_columns[k] : k \in 1..Len(existing_columns)}
  IN  [columns |-> existing_columns,
       rows |-> [i \in 1..Len(reviews) |-> [col \in cols |-> reviews[i][col]]]]

InitGui ==
  /\ auto_login \in BOOLEAN
  /\ max_retries = DefaultMaxRetries
  /\ max_pages \in 1..2
  /\ review_keyword = FALSE
  /\ site = "shop"
  /\ driver_open = FALSE
  /\ view = BlankView
  /\ pc = "idle"
  /\ page = 1
  /\ sel = 0
  /\ attempt = 0
  /\ attempt_ok = FALSE
  /\ attempt_log = NoAttempt
  /\ login_success = "unset"
  /\ login_decision = "none"
  /\ all_reviews = <<>>
  /\ collected_review_ids = {}
  /\ returned = <<>>
  /\ notified = {}
  /\ kept = <<>>
  /\ met = {}
  /\ advLog = <<>>
  /\ visited = <<>>
  /\ manual_entered = FALSE
  /\ still_login = FALSE
  /\ filter_tried = FALSE
  /\ extracted = NoRating
  /\ search_button = TRUE
  /\ scrape_button = FALSE
  /\ stop_button = FALSE
  /\ stop_event = FALSE
  /\ search_pc = "idle"
  /\ search_results = FALSE
  /\ selected_product = FALSE
  /\ joining = FALSE
  /\ csv = NoFile
  /\ orphans = 0

scraper == <<auto_login, max_retries, max_pages, review_keyword, site, extracted>>

worker ==
  <<page, sel, login, login_decision, session, returned, advLog, filter_tried>>

\* start_search
StartSearch ==
  /\ ~joining
  /\ search_button
  /\ search_results' = FALSE
  /\ selected_product' = FALSE
  /\ scrape_button' = FALSE
  /\ search_button' = FALSE
  /\ search_pc' = "setup"
  /\ UNCHANGED <<scraper, worker, driver_open, view, pc, notified, stop_button, stop_event,
                 joining, csv,
                 orphans>>

\* most browsers left behind that the model counts
MaxOrphans == 1

\* perform_search: setup_stealth_driver puts a new browser in self.driver; the one
\* self.driver referred to is not quit
SearchSetup ==
  /\ search_pc = "setup"
  /\ driver_open' = TRUE
  /\ orphans' = IF driver_open /\ orphans < MaxOrphans THEN orphans + 1 ELSE orphans
  /\ view' = BlankView
  /\ Notify("status", "Setting up Chrome driver...")
  /\ search_pc' = "search"
  /\ UNCHANGED <<scraper, worker, pc, search_button, scrape_button, stop_button, stop_event,
                 search_results, selected_product, joining, csv>>

\* perform_search: search_amazon_products, then the results on display
\* (display_search_results) and the Search button enabled again
SearchProducts ==
  /\ search_pc = "search"
  /\ \E found \in BOOLEAN :
       IF driver_open /\ found
       THEN /\ view' = SearchView
            /\ search_results' = TRUE
            /\ scrape_button' = TRUE
            /\ Notify("status", "Found products")
       ELSE /\ view' = IF driver_open THEN SearchView ELSE view
            /\ Notify("status", "No products found")
            /\ UNCHANGED <<search_results, scrape_button>>
  /\ search_button' = TRUE
  /\ search_pc' = "idle"
  /\ UNCHANGED <<scraper, worker, driver_open, pc, stop_button, stop_event, selected_product,
                 joining, csv,
                 orphans>>

\* on_product_select
SelectProduct ==
  /\ ~joining
  /\ search_results
  /\ ~selected_product
  /\ selected_product' = TRUE
  /\ UNCHANGED <<scraper, worker, driver_open, view, pc, notified, search_button,
                 scrape_button, stop_button, stop_event, search_pc, search_results, joining,
                 csv,
                 orphans>>

\* start_scraping
StartScraping ==
  /\ ~joining
  /\ scrape_button
  /\ selected_product
  /\ pc = "idle"
  /\ stop_event' = FALSE
  /\ scrape_button' = FALSE
  /\ stop_button' = TRUE
  /\ pc' = "spawned"
  /\ notified' = {}
  /\ UNCHANGED <<scraper, worker, driver_open, view, search_button, search_pc, search_results,
                 selected_product, joining, csv,
                 orphans>>

\* perform_scraping up to the call of scrape_reviews_for_product, and
\* _initialize_scraping_session
PerformScraping ==
  /\ pc = "spawned"
  /\ IF stop_event \/ ~selected_product
     THEN /\ IF stop_event
             THEN Notify("status", "Scraping cancelled before starting")
             ELSE Notify("error", "Scraping failed")
          /\ scrape_button' = TRUE
          /\ stop_button' = FALSE
          /\ pc' = "idle"
          /\ UNCHANGED worker
     ELSE /\ pc' = "start"
          /\ page' = 1
          /\ sel' = 0
          /\ attempt' = 0
          /\ attempt_ok' = FALSE
          /\ attempt_log' = NoAttempt
          /\ login_success' = "unset"
          /\ login_decision' = "none"
          /\ all_reviews' = <<>>
          /\ collected_review_ids' = {}
          /\ returned' = <<>>
          /\ kept' = <<>>
          /\ met' = {}
          /\ advLog' = <<>>
          /\ visited' = <<>>
          /\ manual_entered' = FALSE
          /\ still_login' = FALSE
          /\ filter_tried' = FALSE
          /\ UNCHANGED <<notified, scrape_button, stop_button>>
  /\ UNCHANGED <<scraper, driver_open, view, search_button, stop_event, search_pc,
                 search_results, selected_product, joining, csv,
                 orphans>>

\* perform_scraping after scrape_reviews_for_product has returned: the stop flag is
\* read; a cancelled run and a run without reviews end here
ScrapingReturned ==
  /\ pc = "done"
  /\ IF stop_event \/ returned = <<>>
     THEN /\ IF stop_event
             THEN Notify("status", "Scraping was cancelled")
             ELSE UNCHANGED notified
          /\ scrape_button' = TRUE
          /\ stop_button' = FALSE
          /\ pc' = "idle"
     ELSE /\ pc' = "saving"
          /\ UNCHANGED <<notified, scrape_button, stop_button>>
  /\ UNCHANGED <<scraper, worker, driver_open, view, search_button, stop_event, search_pc,
                 search_results, selected_product, joining, csv, orphans>>

\* perform_scraping: save_reviews_to_csv, which does not look at the stop flag, and
\* the finally clause
SaveReviews ==
  /\ pc = "saving"
  /\ csv' = save_reviews_to_csv(returned)
  /\ notified' = notified \cup {<<"status", "CSV file saved at Desktop">>,
                                <<"file_saved", "amazon_reviews.csv">>}
  /\ scrape_button' = TRUE
  /\ stop_button' = FALSE
  /\ pc' = "idle"
  /\ UNCHANGED <<scraper, worker, driver_open, view, search_button, stop_event, search_pc,
                 search_results, selected_product, joining, orphans>>

\* stop_scraping up to scraping_thread.join(timeout=5.0)
StopScraping ==
  /\ ~joining
  /\ stop_button
  /\ IF pc # "idle"
     THEN /\ stop_event' = TRUE
          /\ driver_open' = FALSE
          /\ IF driver_open THEN Notify("status", "Browser closed") ELSE UNCHANGED notified
          /\ joining' = TRUE
          /\ UNCHANGED <<scrape_button, stop_button>>
     ELSE /\ stop_button' = FALSE
          /\ scrape_button' = TRUE
          /\ UNCHANGED <<stop_event, driver_open, notified, joining>>
  /\ UNCHANGED <<scraper, worker, view, pc, search_button, search_pc, search_results,
                 selected_product, csv,
                 orphans>>

\* stop_scraping from the return of join, which waits five seconds at most
JoinReturns ==
  /\ joining
  /\ joining' = FALSE
  /\ stop_button' = FALSE
  /\ scrape_button' = TRUE
  /\ UNCHANGED <<scraper, worker, driver_open, view, pc, notified, search_button, stop_event,
                 search_pc, search_results, selected_product, csv,
                 orphans>>

NextGui ==
  \/ StartSearch
  \/ SearchSetup
  \/ SearchProducts
  \/ SelectProduct
  \/ StartScraping
  \/ PerformScraping
  \/ ScrapingReturned
  \/ SaveReviews
  \/ StopScraping
  \/ JoinReturns
  \/ Raise
  \/ HandleLoginForReviews
  \/ LsmNavigate
  \/ AttemptAutomaticLogin
  \/ HandleTwoFactorAuth
  \/ VerifyOrRetry
  \/ ManualLoginConfirmed
  \/ ManualLoginFallback
  \/ LoginReturned
  \/ ApplyReviewFilters
  \/ ExtractFirstPage
  \/ NextPage
  \/ AdvanceNoControl
  \/ AdvanceClick
  \/ ProcessPage
  \/ Finish

SpecGui == InitGui /\ [][NextGui]_vars

----------------------------------------------------------------------------
(* Properties                                                               *)

Done == pc = "done"

Results(log) == [i \in 1..Len(log) |-> log[i].result]

\* the records of page n of site s, when all of its reviews are retained
PageRecords(s, n) ==
  [i \in 1..Len(SiteHarvest[s][n]) |->
     LET d == SiteHarvest[s][n][i].data
     IN  [rating |-> d.rating, title |-> d.title, text |-> d.text, reviewer |-> d.reviewer,
          date |-> d.date, page |-> n]]

\* C1: a review met more than once in a session (same site id, or same fingerprint
\* when it has no site id), on one page or on several, has exactly one record among
\* those retained.
C1_OneRecordPerReview ==
  \A k \in met : Cardinality({i \in 1..Len(kept) : kept[i].key = k}) = 1

\* a review whose id attributes are empty, met on two pages and retained twice
C1_RetainedTwice ==
  \E i, j \in 1..Len(kept) :
    i < j /\ kept[i].key = kept[j].key /\ kept[i].at # kept[j].at /\ Len(all_reviews) = Len(kept)

\* C2: every retained record has a non-empty identity, which is in the session's set
\* of seen identities, and no two retained records have the same identity.
C2_IdentitiesUnique ==
  /\ \A i \in 1..Len(kept) : kept[i].id # <<>> /\ kept[i].id \in collected_review_ids
  /\ \A i, j \in 1..Len(kept) : kept[i].id = kept[j].id => i = j

\* a record retained under the empty identity, which the seen set never receives
C2_EmptyIdentityKept ==
  \E i \in 1..Len(kept) : kept[i].id = <<>> /\ <<>> \notin collected_review_ids

\* C3: every rating an extractor reports (product page, search result, review) is
\* absent or a number between 1.0 and 5.0.
C3_RatingInRange == extracted.rating = None \/ InRatingRange(extracted.rating)

\* the review extractor reports the 10 of "10 out of 10"
C3_ReviewRatingOutOfRange ==
  /\ extracted.by = "review"
  /\ extracted.rating = [num |-> 10, den |-> 1]
  /\ ProductRating(extracted.texts) = None
  /\ SearchRating(extracted.texts) = None

\* C4: no retained record has a text shorter than 20 characters once its whitespace
\* is normalised, whichever body path produced the text.
C4_NormalizedTextLongEnough ==
  \A i \in 1..Len(all_reviews) : Len(Normalize(all_reviews[i].text)) >= MinTextLen

\* a longest-line text of 20 characters that normalises to fewer is retained
C4_GappedTextKept ==
  \E i \in 1..Len(all_reviews) :
    /\ Len(all_reviews[i].text) >= MinTextLen
    /\ Len(Normalize(all_reviews[i].text)) < MinTextLen

\* three pages of five unique reviews each; the first two click_next_page_button
\* calls succeed and show the next page, the third fails
C5_Scenario ==
  /\ Done
  /\ site = "shop"
  /\ Results(advLog) = <<TRUE, TRUE, FALSE>>
  /\ visited = <<1, 2, 3>>

\* C5 as stated: in that scenario exactly 10 records are returned, those of pages 1
\* and 2, each with its page.
C5_TenRecords ==
  C5_Scenario =>
    Len(returned) = 10 /\ returned = PageRecords("shop", 1) \o PageRecords("shop", 2)

\* C5: in that scenario exactly 15 records are returned, those of pages 1, 2 and 3,
\* each with its page.
C5_FifteenRecords ==
  C5_Scenario =>
    /\ Len(returned) = 15
    /\ returned = PageRecords("shop", 1) \o PageRecords("shop", 2) \o PageRecords("shop", 3)
    /\ \A i \in 1..Len(returned) : returned[i].page = kept[i].at

C5_ScenarioDone == C5_Scenario /\ Len(returned) = 15 /\ max_pages = 4

\* handle_login_automatically has returned and _handle_login_for_reviews has not
\* yet acted on the value
LsmReturned == pc = "login_ret"

\* C6: for every max_retries >= 0, when a login page is on display after the
\* navigation and after every automatic attempt, handle_login_automatically has
\* entered the manual fallback before it returns; and it returns failure only from
\* the manual fallback, with a login page on display after the re-navigation.
C6_ManualFallbackBeforeFailure ==
  LsmReturned =>
    /\ still_login => manual_entered
    /\ login_success = "false" => manual_entered /\ is_login_page(site, view, TRUE)

\* success returned with a login page on display throughout and no manual fallback
C6_SuccessOnLoginPage ==
  /\ LsmReturned
  /\ login_success = "true"
  /\ still_login
  /\ ~manual_entered
  /\ is_login_page(site, view, TRUE)
  /\ attempt = 1

IsPrefix(a, b) == Len(a) <= Len(b) /\ SubSeq(b, 1, Len(a)) = a

\* C7: records once appended to the session's sequence stay, in their order, and
\* whatever ends the session the value returned is the whole sequence accumulated.
C7_NothingLost ==
  [][/\ IsPrefix(all_reviews, all_reviews')
     /\ IsPrefix(returned, all_reviews')
     /\ (pc' = "done" => returned' = all_reviews')]_vars

\* a session that ended on a failed advance after the driver was closed, with the
\* records of at least two extractions returned
C7_PartialReturned ==
  /\ Done
  /\ ~driver_open
  /\ Len(returned) > Len(SiteHarvest[site][1])
  /\ advLog # <<>>
  /\ ~advLog[Len(advLog)].result

\* C8: a click_next_page_button call ends by returning, never by raising; it returns
\* True exactly when it returns from a click after which the location differs from
\* the one read before the click.
C8_AdvanceContract ==
  [][pc = "nav" =>
       /\ pc' \in {"nav", "process", "finish"}
       /\ pc' # "nav" =>
            /\ Len(advLog') = Len(advLog) + 1
            /\ LET r == advLog'[Len(advLog')]
               IN  /\ r.result <=> (r.clicked /\ Url(view') # Url(view))
                   /\ r.result <=> pc' = "process"]_vars

\* a call that clicked and returned False because the location stayed, after an
\* earlier call that returned True
C8_ClickedUnchanged ==
  /\ Len(advLog) = 2
  /\ advLog[1] = [result |-> TRUE, clicked |-> TRUE]
  /\ advLog[2] = [result |-> FALSE, clicked |-> TRUE]

LoginFailed == login_decision = "abort"

NothingScraped ==
  /\ all_reviews = <<>>
  /\ visited = <<>>
  /\ advLog = <<>>
  /\ ~filter_tried
  /\ pc = "done"
  /\ returned = <<>>

Notified(type) == \E n \in notified : n[1] = type

C10_DecisionIsLsmValue ==
  login_decision # "none" =>
    /\ login_success # "unset"
    /\ login_decision = "proceed" <=> login_success = "true"

\* without credentials the decision is taken with the login state machine never run
C10_DecidedFromPage ==
  /\ ~auto_login
  /\ login_decision = "proceed"
  /\ login_success = "unset"
  /\ visited # <<>>

\* C11: in one run of handle_login_automatically every automatic attempt takes the
\* loop variable one step up, the loop variable never exceeds max_retries, and the
\* manual fallback is entered only when it has not been entered before.
C11_RetriesBounded ==
  [][/\ attempt' <= max_retries
     /\ (pc' = "lsm_attempt" /\ pc # "lsm_attempt") => attempt' = attempt + 1
     /\ (pc' = "lsm_manual" /\ pc # "lsm_manual") => ~manual_entered /\ manual_entered'
     /\ pc \notin LoginSteps => pc' \notin LoginSteps \ {"lsm_get"}]_vars

\* the last attempt allowed has failed and the manual fallback is entered
C11_AllAttemptsUsed ==
  /\ pc = "lsm_manual"
  /\ max_retries = MaxRetriesBound
  /\ attempt = max_retries
  /\ manual_entered

\* calls of click_next_page_button made so far, the one in progress included
AdvanceCalls == Len(advLog) + (IF pc = "nav" THEN 1 ELSE 0)

\* C12: with page budget N, click_next_page_button is called at most N - 1 times, at
\* most N pages are extracted, and the page tags of the records lie in 1..N and never
\* decrease along the sequence.
C12_PageBudget ==
  /\ AdvanceCalls <= max_pages - 1
  /\ Len(visited) <= max_pages
  /\ \A i \in 1..Len(all_reviews) : all_reviews[i].page \in 1..max_pages
  /\ \A i, j \in 1..Len(all_reviews) : i <= j => all_reviews[i].page <= all_reviews[j].page
  /\ Done => returned = all_reviews

\* the whole budget is used: N - 1 calls, N extractions, records of three pages
C12_BudgetUsed ==
  /\ Done
  /\ max_pages = MaxPagesBound
  /\ AdvanceCalls = max_pages - 1
  /\ Len(visited) = max_pages
  /\ {returned[i].page : i \in 1..Len(returned)} = {1, 2, 3}

\* find_review_elements gave no element at any page extraction made so far
NoElementFound ==
  \A i \in 1..Len(visited) : visited[i] = 0 \/ SiteHarvest[site][visited[i]] = <<>>

\* the product has no review, and the session ended with the driver open and the
\* review page on display, no exception having reached its handler
NoReviewsPresent ==
  /\ \A n \in 1..LastPage(site) : SiteHarvest[site][n] = <<>>
  /\ driver_open
  /\ view.path = "reviews"
  /\ <<"error", "Error during scraping">> \notin notified

ReportsZero ==
  /\ returned = <<>>
  /\ <<"status", "Finished scraping. Total unique reviews collected: 0">> \in notified
  /\ ~Notified("error")

\* C13: when no review element is found on any page the session visits, it returns
\* the empty sequence, sends the completion status that reports a total of 0, and
\* sends no error notification.
C13_NoReviewsIsNoError == Done /\ NoReviewsPresent /\ NoElementFound => ReportsZero

\* with credentials, the review page of a product without reviews is taken for a
\* login page and the session ends with an error, no page extracted
C13_EmptyProductFails ==
  /\ Done
  /\ NoReviewsPresent
  /\ site = "none"
  /\ auto_login
  /\ visited = <<>>
  /\ <<"error", "Auto login failed, cannot proceed with scraping.">> \in notified

\* once a session has extracted a page, finding no element anywhere is no error
ExtractingNothingReportsZero == Done /\ visited # <<>> /\ NoElementFound => ReportsZero

\* the text a count selector shows, without blanks, surrounding parentheses and
\* thousands separators
CountNumeral(s) ==
  LET a == Strip(s)
      b == IF Len(a) >= 2 /\ a[1] = "(" /\ a[Len(a)] = ")" THEN SubSeq(a, 2, Len(a) - 1) ELSE a
  IN  Without(b, {",", " "})

\* a decimal number followed by K or M and nothing else
HasMagnitudeSuffix(s) ==
  LET t == CountNumeral(s)
  IN  /\ Len(t) >= 2
      /\ t[Len(t)] \in {"K", "M"}
      /\ t[1] \in Digits
      /\ IsDigitsAndDots(SubSeq(t, 1, Len(t) - 1))
      /\ Cardinality({i \in 1..Len(t) : t[i] = "."}) <= 1

\* the leading number times 1000 or 1,000,000, as an integer
ExactCount(s) ==
  LET t == CountNumeral(s)
      v == FirstDecimal(t)
      by == IF t[Len(t)] = "K" THEN Thousand ELSE Thousand * Thousand
  IN  NatToChars((v.num * by) \div v.den)

CountLookup == extracted.by \in {"product_count", "search_count"}

\* C14: whenever either review-count extractor reads, from the first element its
\* selectors find, a text that is a decimal number followed by K or M (thousands
\* separators and surrounding parentheses aside), the count it records is that
\* number times 1000 or 1,000,000 as an integer
C14_ScaledCountExact ==
  (/\ CountLookup
   /\ extracted.texts[1].aria = <<>>
   /\ HasMagnitudeSuffix(extracted.texts[1].text))
    => extracted.count = ExactCount(extracted.texts[1].text)

\* the product-page extractor has read "32.3K" and recorded 32299
C14_TruncatedCount ==
  /\ extracted.by = "product_count"
  /\ extracted.texts = <<[aria |-> <<>>, text |-> <<"3", "2", ".", "3", "K">>]>>
  /\ extracted.count = <<"3", "2", "2", "9", "9">>

\* the two examples of the count format, "3.9K" and "2M", are read exactly by both extractors
CountExamplesExact ==
  (/\ CountLookup
   /\ extracted.texts[1].aria = <<>>
   /\ extracted.texts[1].text \in {<<"3", ".", "9", "K">>, <<"(", "3", ".", "9", "K", ")">>, <<"2", "M">>})
    => extracted.count = ExactCount(extracted.texts[1].text)

ScrapeAlive == pc # "idle"

SearchAlive == search_pc # "idle"

\* C15: a search worker and a scrape worker are never alive together; while a worker
\* is alive neither a search nor a scrape can be started; and the driver of a live
\* scrape worker is closed or replaced by no other thread.
C15_OneThreadDrives ==
  [][/\ ~(ScrapeAlive' /\ SearchAlive')
     /\ (ScrapeAlive' \/ SearchAlive') /\ ~joining' =>
          ~search_button' /\ ~(scrape_button' /\ selected_product')
     /\ ScrapeAlive /\ ScrapeAlive' /\ pc' = pc => driver_open' = driver_open]_vars

\* a search worker has put a new browser in place of the driver under a scrape worker
\* that is between two of its pages
C15_SearchBesideScrape ==
  /\ pc = "loop"
  /\ search_pc = "search"
  /\ driver_open
  /\ view = BlankView
  /\ ~stop_event

\* C18: when perform_scraping ends after scrape_reviews_for_product returned at least
\* one review, whether or not Stop was pressed, the reviews have been written to the
\* CSV file and a file_saved notification has been sent.
C18_CollectedIsExported ==
  [][(pc = "done" /\ pc' = "idle" /\ returned # <<>>) =>
       /\ <<"file_saved", "amazon_reviews.csv">> \in notified'
       /\ Len(csv'.rows) = Len(returned)]_vars

\* a run that was stopped has ended with reviews collected and none of them exported
C18_StoppedRunDropped ==
  /\ pc = "idle"
  /\ returned # <<>>
  /\ stop_event
  /\ <<"status", "Scraping was cancelled">> \in notified
  /\ <<"file_saved", "amazon_reviews.csv">> \notin notified
  /\ csv = NoFile

\* C20: every file written has the columns asin, rating, title, text, reviewer, date,
\* page, in this order.
C20_FixedColumns == csv # NoFile => csv.columns = column_order

\* a file has been written without the asin column
C20_NoAsinColumn ==
  /\ csv # NoFile
  /\ csv.columns = <<"rating", "title", "text", "reviewer", "date", "page">>
  /\ Len(csv.rows) = Len(returned)

\* every file written has the columns the records have, in the fixed order
ColumnsOfRecords ==
  csv # NoFile => csv.columns = <<"rating", "title", "text", "reviewer", "date", "page">>

\* cancellation has been requested of a live scrape worker: stop_scraping has set the
\* stop flag and closed the driver
Cancelled == stop_event /\ ScrapeAlive

AdvanceSucceeded == Len(advLog') > Len(advLog) /\ advLog'[Len(advLog')].result

\* C16: once cancellation has been requested, the scrape worker makes no successful
\* advance to a next page and appends no record tagged with a page beyond the one it
\* is at.
C16_NoPageAfterCancel ==
  [][Cancelled =>
       /\ ~AdvanceSucceeded
       /\ \A i \in (Len(all_reviews) + 1)..Len(all_reviews') : all_reviews'[i].page <= page]_vars

\* after Stop the scrape worker has advanced to page 2 in the browser a search opened
C16_AdvancedAfterCancel ==
  /\ Cancelled
  /\ pc = "process"
  /\ driver_open
  /\ view.path = "reviews"
  /\ view.actual = 2

\* while the driver is closed nothing is appended and no advance succeeds
ClosedDriverStopsWorker ==
  [][~driver_open => Len(all_reviews') <= Len(all_reviews) /\ ~AdvanceSucceeded]_vars

\* one step of the scrape worker inside scrape_reviews_for_product
ScrapeStep ==
  \/ Raise
  \/ HandleLoginForReviews
  \/ LsmNavigate
  \/ AttemptAutomaticLogin
  \/ HandleTwoFactorAuth
  \/ VerifyOrRetry
  \/ ManualLoginConfirmed
  \/ ManualLoginFallback
  \/ LoginReturned
  \/ ApplyReviewFilters
  \/ ExtractFirstPage
  \/ NextPage
  \/ AdvanceNoControl
  \/ AdvanceClick
  \/ ProcessPage
  \/ Finish

\* C17: with the driver closed, a scrape that has not returned always has a step to
\* take inside scrape_reviews_for_product (every failure is handled there), and when it
\* has returned, it has returned the sequence it had accumulated.
C17_FailsCleanly ==
  ~driver_open =>
    /\ pc # "done" => ENABLED ScrapeStep
    /\ pc = "done" => returned = all_reviews

\* the driver was closed after page 1 and the scrape has returned the reviews of page 1
C17_ClosedMidRun ==
  /\ pc = "done"
  /\ ~driver_open
  /\ visited = <<1>>
  /\ returned # <<>>
  /\ returned = all_reviews

\* a session whose worker keeps running and whose operator answers every wait: the 2FA
\* wait ends with HandleTwoFactorAuth, the manual-login wait with ManualLoginConfirmed
SpecLive == Init /\ [][Next]_vars /\ WF_vars(ScrapeStep)

\* C19: when the worker keeps running and the operator answers both waits, every
\* scrape_reviews_for_product call returns.
C19_Terminates == <>Done

\* a session with credentials has logged in, used its whole page budget and returned
C19_ReturnedAfterLoginAndLoop ==
  /\ Done
  /\ auto_login
  /\ login_success = "true"
  /\ max_pages = MaxPagesBound
  /\ Len(visited) = max_pages

\* a product lookup that loaded the page and met no blocking page
LookupRan ==
  extracted.by = "lookup" /\ extracted.texts.loads /\ extracted.texts.blocking = "none"

\* the notes extraction_errors can hold about each field
NotesAbout ==
  [asin |-> {"ASIN extraction failed"},
   title |-> {"Title not found with any selector", "Title extraction failed"},
   price |-> {"Price not found with any method", "Price extraction failed"},
   rating |-> {"Rating not found with any selector", "Rating extraction failed"},
   reviews_count |-> {"Review count not found with any method",
                      "Review count extraction failed"}]

\* the field still has the value _initialize_product_info gave it
FieldMissing(info, f) == info[f] = NewProductInfo[f]

FieldNoted(info, f) ==
  \E i \in 1..Len(info.extraction_errors) : info.extraction_errors[i] \in NotesAbout[f]

\* C21: a product lookup that is not cut short by a blocking page calls the extractor
\* of each of the five fields, and every field left without a value has a failure note
\* in extraction_errors.
C21_MissingFieldsNoted ==
  LookupRan =>
    /\ extracted.attempted = <<"asin", "title", "price", "rating", "reviews_count">>
    /\ \A f \in DOMAIN NotesAbout : FieldMissing(extracted.info, f) => FieldNoted(extracted.info, f)

\* a lookup found everything but the ASIN and left no note at all
C21_AsinMissingUnnoted ==
  /\ LookupRan
  /\ extracted.info.asin = "UNKNOWN"
  /\ extracted.info.title = "title"
  /\ extracted.info.extraction_errors = <<>>

\* all five extractors are called, and a missing title, price, rating or review count is
\* noted
OtherFieldsNoted ==
  LookupRan =>
    /\ extracted.attempted = <<"asin", "title", "price", "rating", "reviews_count">>
    /\ \A f \in DOMAIN NotesAbout \ {"asin"} :
         FieldMissing(extracted.info, f) => FieldNoted(extracted.info, f)

\* C22: every record of the session carries as its page tag the page number that
\* get_current_page_number detects on the page it was harvested from.
C22_TagIsDetectedPage ==
  \A i \in 1..Len(all_reviews) : all_reviews[i].page = kept[i].detected

\* a record harvested on page 3 of the shop, detected as page 3, has been returned with
\* the tag 2, after the warning
C22_TaggedWithLoopIndex ==
  /\ Done
  /\ site = "shop"
  /\ <<"status", "WARNING: Expected page differs">> \in notified
  /\ \E i \in 1..Len(returned) :
       returned[i].page = 2 /\ kept[i].detected = 3 /\ kept[i].at = 3

\* a count text with digits in it whose last character is not a K or M suffix
HasNoMagnitudeSuffix(s) ==
  LET t == CountNumeral(s)
  IN  /\ FirstDigits(t) # <<>>
      /\ t[Len(t)] \notin {"K", "M", "k", "m"}

\* C23: whenever either review-count extractor reads, from the first element its
\* selectors find, a text that holds a number above zero and does not end in K or M,
\* the count it records is the text's plain digit string: no multiplier is applied.
C23_PlainCountUnscaled ==
  (/\ CountLookup
   /\ extracted.texts[1].aria = <<>>
   /\ HasNoMagnitudeSuffix(extracted.texts[1].text)
   /\ DigitsToNat(FirstDigits(CountNumeral(extracted.texts[1].text))) > 0)
    => extracted.count = FirstDigits(CountNumeral(extracted.texts[1].text))

\* the product-page extractor has read "12 customer reviews" and recorded 12000000
C23_WordTakenForSuffix ==
  /\ extracted.by = "product_count"
  /\ extracted.texts =
       <<[aria |-> <<>>,
          text |-> <<"1", "2", " ", "c", "u", "s", "t", "o", "m", "e", "r", " ",
                     "r", "e", "v", "i", "e", "w", "s">>]>>
  /\ extracted.count = <<"1", "2", "0", "0", "0", "0", "0", "0">>

\* the product-page extractor records a text of digits, separators and parentheses
\* only as its digit string
DigitsOnlyCountUnscaled ==
  (/\ extracted.by = "product_count"
   /\ extracted.texts[1].aria = <<>>
   /\ IsDigit(CountNumeral(extracted.texts[1].text))
   /\ DigitsToNat(CountNumeral(extracted.texts[1].text)) > 0)
    => extracted.count = CountNumeral(extracted.texts[1].text)

\* what the extractor of the lookup makes of the k-th element its selectors found
CandidateCount(k) ==
  IF extracted.by = "product_count" THEN ProductCountOf(extracted.texts[k])
  ELSE SearchCountOf(extracted.texts[k])

\* C24: whenever a review-count extractor has gone through the elements its selectors
\* found and one of them yields a count above zero, the count it records is not 0: a
\* candidate whose value is zero is passed over for the next selector.
C24_ZeroCountPassedOver ==
  (/\ CountLookup
   /\ \E k \in 1..Len(extracted.texts) : CandidateCount(k) \notin {<<>>, <<"0">>})
    => extracted.count # <<"0">>

\* the product-page extractor has read "0K" from its first element, recorded 0 and
\* left the second element, "1,234", unread
C24_ZeroThousandRecorded ==
  /\ extracted.by = "product_count"
  /\ extracted.texts = <<[aria |-> <<>>, text |-> <<"0", "K">>],
                         [aria |-> <<>>, text |-> <<"1", ",", "2", "3", "4">>]>>
  /\ extracted.count = <<"0">>

\* the plain-number branch of the product-page extractor does pass a zero over
PlainZeroPassedOver ==
  (/\ extracted.by = "product_count"
   /\ Len(extracted.texts) = 2
   /\ extracted.texts[1] = [aria |-> <<>>, text |-> <<"0">>]
   /\ CandidateCount(2) \notin {<<>>, <<"0">>})
    => extracted.count = CandidateCount(2)

\* the last click_next_page_button call of the session returned False
NavigationFailed == advLog # <<>> /\ ~advLog[Len(advLog)].result

\* C25: once click_next_page_button has returned False inside the pagination loop,
\* the session makes no further navigation attempt and extracts no further page, the
\* records accumulated stay as they are, and they are what the session returns.
C25_FailedAdvanceEndsLoop ==
  [][NavigationFailed =>
       /\ advLog' = advLog
       /\ view' = view
       /\ visited' = visited
       /\ all_reviews' = all_reviews
       /\ pc' \in {"finish", "done"}
       /\ (pc' = "done" => returned' = all_reviews)]_vars

\* a session on a two-page product with a budget of three pages: the second advance
\* returned False, pages 1 and 2 were extracted and their records returned
C25_StoppedAfterTwoPages ==
  /\ Done
  /\ max_pages = 3
  /\ Len(advLog) = 2
  /\ advLog[1].result
  /\ ~advLog[2].result
  /\ visited = <<1, 2>>
  /\ returned = all_reviews
  /\ returned # <<>>
  /\ <<"status", "No next button found - stopping pagination">> \in notified

\* C26: after a successful advance, a detected page of 1 that is not the expected page
\* ends the pagination without extracting the page; any other detected page, the
\* expected one or not, has the page extracted and the loop go on to the next index,
\* with a warning posted when it differs from the expected one.
C26_OnlyPageOneStops ==
  [][pc = "process" /\ pc' # "process" =>
       LET current_page == get_current_page_number(view, driver_open)
       IN  IF current_page = 1 /\ page # 1
           THEN /\ pc' = "finish"
                /\ visited' = visited
                /\ all_reviews' = all_reviews
                /\ <<"status", "Pagination failed, stopping">> \in notified'
           ELSE /\ pc' = "loop"
                /\ page' = page + 1
                /\ Len(visited') = Len(visited) + 1
                /\ (current_page # page =>
                      <<"status", "WARNING: Expected page differs">> \in notified')
                /\ (current_page = page => notified' = notified)]_vars

\* a session whose first advance left the browser on page 3 while page 2 was expected:
\* the warning is posted, page 3 is extracted and the loop asks for another advance
C26_MismatchExtracted ==
  /\ visited = <<1, 3>>
  /\ page = 3
  /\ pc = "nav"
  /\ driver_open
  /\ <<"status", "WARNING: Expected page differs">> \in notified
  /\ <<"status", "Pagination failed, stopping">> \notin notified

\* a session whose advance was reported successful while page 1 is detected: the
\* pagination stops with page 1 extracted once only
C26_BackOnPageOne ==
  /\ Done
  /\ advLog # <<>>
  /\ advLog[Len(advLog)].result
  /\ Len(visited) = Len(advLog)
  /\ <<"status", "Pagination failed, stopping">> \in notified

\* the worker is past the form of an automatic login attempt
AttemptMade == pc \in {"lsm_2fa", "lsm_verify"}

Performed(step) == \E i \in 1..Len(attempt_log.steps) : attempt_log.steps[i] = step

\* C27: an automatic login attempt that cannot locate the email field, the password
\* field or the sign-in control ends in a failure value, never in an exception, and
\* performs none of its later steps: no password is typed without the email field, no
\* sign-in click is made without the password field, and without the sign-in control
\* the attempt does not go on to the two-factor check.
C27_MissingControlFailsAttempt ==
  /\ [](AttemptMade =>
          /\ ~attempt_log.form.email =>
               attempt_log.steps = <<>> /\ pc = "lsm_verify" /\ ~attempt_ok
          /\ ~attempt_log.form.password =>
               ~Performed("password") /\ ~Performed("signin") /\ pc = "lsm_verify"
                 /\ ~attempt_ok
          /\ ~attempt_log.form.signin => pc = "lsm_verify" /\ ~attempt_ok)
  /\ [][pc = "lsm_attempt" => pc' \in {"lsm_attempt", "lsm_2fa", "lsm_verify"}]_vars

\* an attempt on a form that shows a password field but no email field: nothing was
\* typed and the attempt has failed
C27_NoEmailNothingTyped ==
  /\ pc = "lsm_verify"
  /\ driver_open
  /\ attempt_log.form = [email |-> FALSE, continue |-> TRUE, password |-> TRUE,
                         signin |-> TRUE]
  /\ attempt_log.steps = <<>>
  /\ ~attempt_ok

\* C28: an attempt that met a two-factor challenge stays where it is, with the page
\* and the login state untouched, until input() returns; it then goes to the end of
\* the attempt within the same turn of the loop, as a failure whenever
\* _is_login_page still holds of the page; and a challenged attempt that failed is
\* followed, like any failed attempt, by the next attempt while attempts are left and
\* by the manual fallback otherwise.
C28_TwoFactorBlocksThenCounts ==
  [][/\ pc = "lsm_2fa" =>
          \/ pc' = "lsm_2fa" /\ UNCHANGED <<view, login, login_decision, session, returned>>
          \/ /\ pc' = "lsm_verify"
             /\ attempt' = attempt
             /\ login_success' = login_success
             /\ is_login_page(site, view', driver_open) => ~attempt_ok'
     /\ (pc = "lsm_verify" /\ attempt_log.challenged /\ ~attempt_ok /\ pc' # pc) =>
          IF attempt < max_retries
          THEN \/ pc' = "lsm_attempt" /\ attempt' = attempt + 1
               \/ pc' = "done" /\ login_success' = login_success
          ELSE pc' = "lsm_manual"]_vars

\* the first of two attempts met a challenge, the operator gave the signal and the
\* page is still the sign-in page: the attempt has failed
C28_ChallengeFailed ==
  /\ pc = "lsm_verify"
  /\ driver_open
  /\ max_retries = 2
  /\ attempt = 1
  /\ attempt_log.challenged
  /\ is_login_page(site, view, TRUE)
  /\ ~attempt_ok

\* C29: while the manual fallback waits for the operator's confirmation the worker
\* leaves the browser where it is; the target URL is loaded again only once input()
\* has returned, and the fallback then returns success exactly when _is_login_page
\* does not hold of the page that load ends on.
C29_ManualReloadAfterConfirmation ==
  [][/\ pc = "lsm_manual" =>
          /\ view' = view
          /\ login_success' = login_success
          /\ pc' \in {"lsm_manual", "lsm_reload", "done"}
     /\ (pc = "lsm_reload" /\ pc' # pc) =>
          \/ /\ pc' = "login_ret"
             /\ view' \in GetViews(site)
             /\ login_success' = IF is_login_page(site, view', driver_open) THEN "false"
                                 ELSE "true"
          \/ /\ pc' = "done"
             /\ view' = view
             /\ login_success' = login_success
     /\ (pc' = "lsm_reload" /\ pc # pc') => pc = "lsm_manual"]_vars

\* the manual fallback has loaded the target again after both attempts failed, the
\* sign-in page came back and the fallback returned failure
C29_StillLoginAfterReload ==
  /\ pc = "login_ret"
  /\ manual_entered
  /\ attempt = 2
  /\ login_success = "false"
  /\ is_login_page(site, view, driver_open)

\* C30: whenever the page on display holds at least one review element,
\* _is_login_page answers False of it, whichever login indicators fire; so
\* handle_login_automatically never returns failure with such a page on display.
C30_ReviewPageIsNoLoginPage ==
  (driver_open /\ HasReviewElements(site, view)) =>
    /\ ~is_login_page(site, view, driver_open)
    /\ pc = "login_ret" => login_success = "true"

\* the target loaded as a review page whose source holds 'signin': the check answered
\* False and handle_login_automatically returned success without an attempt
C30_ReviewsWithSigninInSource ==
  /\ pc = "login_ret"
  /\ driver_open
  /\ attempt = 0
  /\ login_success = "true"
  /\ HasReviewElements(site, view)
  /\ SourceHasSignin(site, view)

\* the notifications of type 'error' sent so far
Errors == {n \in notified : n[1] = "error"}

\* C31: whatever apply_review_keyword_filter meets (no search input, no submit
\* control, a failed verification, an exception), the step after it is the extraction
\* of page 1, that extraction is followed by the pagination loop, and the filter adds
\* no 'error' notification and returns nothing from the scrape.
C31_FilterNeverStopsScrape ==
  [][/\ (pc = "filter" /\ pc' # pc) =>
          /\ pc' = "extract1"
          /\ Errors' = Errors
          /\ returned' = returned
          /\ all_reviews' = all_reviews
     /\ (pc = "extract1" /\ pc' # pc) =>
          /\ pc' = "loop"
          /\ Len(visited') = Len(visited) + 1
          /\ Errors' = Errors]_vars

\* a session whose keyword filter raised: page 1 and a second page were extracted and
\* the session ended without an error notification
C31_ScrapedAfterFilterError ==
  /\ Done
  /\ review_keyword
  /\ <<"status", "Error applying keyword filter">> \in notified
  /\ <<"status", "Continuing without keyword filter">> \in notified
  /\ Len(visited) >= 2
  /\ returned # <<>>
  /\ Errors = {}

\* C32: whenever the operator has selected a row of a result list, the selected
\* product is the one whose ASIN the row displays, also when result elements without
\* a valid ASIN were skipped.
C32_SelectedIsDisplayed ==
  extracted.by = "select" => extracted.selected.asin = extracted.row.asin

\* the first of three result elements had no ASIN; the operator selected the first
\* row, which shows the second element's ASIN, and the third element's product is
\* selected
C32_NeighbourSelected ==
  /\ extracted.by = "select"
  /\ extracted.texts = <<FALSE, TRUE, TRUE>>
  /\ extracted.row = [index |-> 2, asin |-> AsinOf(2)]
  /\ extracted.selected = [index |-> 3, asin |-> AsinOf(3)]

\* with no result element skipped the selected product is the one displayed
UnskippedSelectedIsDisplayed ==
  (extracted.by = "select" /\ \A i \in 1..Len(extracted.texts) : extracted.texts[i]) =>
    extracted.selected = extracted.row

\* driver.get(review url) has returned in this session: the call is made by
\* handle_login_automatically alone, which sets its result after it and only then
NavigatedToReviews == login_success # "unset"

\* the session is at or past the extraction of page 1
AtOrPastPageOne == pc \in {"filter", "extract1"} \/ visited # <<>>

\* C33: in every configuration, with stored credentials or without, a session that
\* is about to extract page 1 or has extracted it has loaded the product's review URL
\* before.
C33_NavigatedBeforePageOne == AtOrPastPageOne => NavigatedToReviews

\* a scraper without credentials has extracted "page 1" from the result list of the
\* search, which the browser never left, and found no review there
C33_ExtractedSearchPage ==
  /\ ~auto_login
  /\ site = "shop"
  /\ pc = "loop"
  /\ driver_open
  /\ view = SearchView
  /\ Len(visited) = 1
  /\ all_reviews = <<>>
  /\ ~NavigatedToReviews

\* with stored credentials the review URL is loaded before page 1
NavigatedWithCredentials == (auto_login /\ AtOrPastPageOne) => NavigatedToReviews

\* C34: whenever handle_login_automatically has returned success, by the check after
\* the navigation, by the verification of an attempt or from the manual fallback,
\* _is_login_page does not hold of the page on display.
C34_SuccessOffLoginPage ==
  (LsmReturned /\ login_success = "true") => ~is_login_page(site, view, driver_open)

\* the second attempt submitted the form, the sign-in page with the review URL as
\* its return address came back, and the verification took it for success
C34_VerifiedOnSigninPage ==
  /\ LsmReturned
  /\ login_success = "true"
  /\ driver_open
  /\ attempt = 2
  /\ attempt_ok
  /\ view = SigninView(TRUE)
  /\ is_login_page(site, view, driver_open)

\* success returned by the check after the navigation or by the manual fallback is
\* returned off a login page, the product URL aside
SuccessOffLoginPageUnverified ==
  (LsmReturned /\ login_success = "true" /\ driver_open /\ (attempt = 0 \/ manual_entered))
    => ~is_login_page(site, view, driver_open) \/ UrlHasDp(view)

\* browsers open: the one self.driver refers to and the ones left behind
OpenDrivers == (IF driver_open THEN 1 ELSE 0) + orphans

\* C35: at most one browser is open at any time, whatever searches, scrapes and stops
\* the application has been through.
C35_OneDriverAtMost == OpenDrivers <= 1

\* a second search has opened its browser while the browser of the first search,
\* never quit, is still open
C35_SecondSearchLeavesBrowser ==
  /\ search_pc = "search"
  /\ driver_open
  /\ orphans = 1
  /\ pc = "idle"
  /\ ~stop_event

\* a browser is left behind only by a search that finds one open
OrphanedOnlyBySearch ==
  [][(orphans' # orphans) => (search_pc = "setup" /\ driver_open)]_vars

\* a file_saved notification has been sent
FileSaved == <<"file_saved", "amazon_reviews.csv">> \in notified

\* C36: from the moment Stop has set the stop flag during a scrape, under every
\* interleaving of the GUI thread and the worker, the worker of that scrape writes no
\* CSV file and sends no file_saved notification.
C36_NothingSavedAfterStop ==
  [][(stop_event /\ ScrapeAlive) => (csv' = csv /\ (FileSaved' => FileSaved))]_vars

\* Stop was pressed after the worker had read the stop flag and before it saved: the
\* scrape has ended with its file written and file_saved sent
C36_SavedAfterStop ==
  /\ pc = "idle"
  /\ stop_event
  /\ returned # <<>>
  /\ csv # NoFile
  /\ Len(csv.rows) = Len(returned)
  /\ FileSaved
  /\ <<"status", "Scraping was cancelled">> \notin notified

\* a worker that reads the stop flag after Stop was pressed saves nothing
StopSeenMeansNoSave ==
  [][(stop_event /\ pc = "done") => (csv' = csv /\ pc' \in {"done", "idle"})]_vars

\* one step of the scrape worker that needs no operator: every step of
\* perform_scraping but the return of the two input() calls, by a line typed or by
\* an exception
UnattendedStep ==
  \/ PerformScraping
  \/ ScrapingReturned
  \/ SaveReviews
  \/ (pc # "lsm_manual" /\ Raise)
  \/ HandleLoginForReviews
  \/ LsmNavigate
  \/ AttemptAutomaticLogin
  \/ VerifyOrRetry
  \/ ManualLoginFallback
  \/ LoginReturned
  \/ ApplyReviewFilters
  \/ ExtractFirstPage
  \/ NextPage
  \/ AdvanceNoControl
  \/ AdvanceClick
  \/ ProcessPage
  \/ Finish

\* the application with a scrape worker that keeps running whenever it can without
\* the operator
SpecStop == InitGui /\ [][NextGui]_vars /\ WF_vars(UnattendedStep)

\* C37: once Stop has been pressed on a live scrape worker, the worker terminates
\* without the operator answering a wait, wherever it was; and the Scrape button
\* turns enabled only in steps after which no scrape worker is alive.
C37_StopEndsWorker ==
  /\ (stop_event /\ ScrapeAlive) ~> ~ScrapeAlive
  /\ [][(scrape_button' /\ ~scrape_button) => ~ScrapeAlive']_vars

\* Stop was pressed while the worker waits in input() for the two-factor code; join
\* has timed out and the Scrape button is enabled beside the live worker
C37_ScrapeEnabledBesideWaitingWorker ==
  /\ pc = "lsm_2fa"
  /\ stop_event
  /\ ~joining
  /\ ~driver_open
  /\ scrape_button
  /\ ~stop_button

\* a cancelled worker that is not inside input() has a step to take
CancelledWorkerCanStep ==
  (stop_event /\ ScrapeAlive /\ pc \notin {"lsm_2fa", "lsm_manual"}) => ENABLED UnattendedStep

\* C38: whenever an advance has succeeded and the browser shows a review page other
\* than page 1, the worker's next step extracts that page, also when neither the URL
\* nor the selected-page indicator tells its number.
C38_AdvancedPageExtracted ==
  [][(pc = "process" /\ pc' # pc /\ driver_open /\ view.path = "reviews" /\ view.actual # 1) =>
       /\ pc' = "loop"
       /\ visited' = Append(visited, view.actual)]_vars

\* the advance from page 1 succeeded and the browser shows page 2, whose number
\* neither the URL nor an indicator tells: the pagination has stopped with page 1
\* extracted alone
C38_UndetectedPageSkipped ==
  /\ pc = "finish"
  /\ driver_open
  /\ view.path = "reviews"
  /\ view.actual = 2
  /\ view.param = 0
  /\ view.indicator = 0
  /\ visited = <<1>>
  /\ Len(advLog) = 1
  /\ advLog[1].result
  /\ <<"status", "Pagination failed, stopping">> \in notified

\* a page other than page 1 whose number is detected is extracted
DetectedPageExtracted ==
  [][(/\ pc = "process" /\ pc' # pc /\ driver_open /\ view.path = "reviews"
      /\ view.actual # 1 /\ get_current_page_number(view, driver_open) = view.actual) =>
       /\ pc' = "loop"
       /\ visited' = Append(visited, view.actual)]_vars

\* C39: within one call of click_next_page_button, once a click has been issued (and
\* a driver call after it has raised) no further control is clicked; so the browser
\* is never further on than one page per call made.
C39_OneClickPerAdvance ==
  /\ [][(pc = "nav" /\ sel > 1) =>
          /\ sel' <= sel
          /\ Len(advLog') > Len(advLog) => ~advLog'[Len(advLog')].clicked]_vars
  /\ [](view.path = "reviews" => view.actual <= 1 + AdvanceCalls)

\* the first call clicked the control of the first selector, the driver raised, the
\* call clicked the control of the second selector and returned True: one call made,
\* the browser on page 3
C39_TwoPagesInOneAdvance ==
  /\ pc = "process"
  /\ driver_open
  /\ advLog = <<[result |-> TRUE, clicked |-> TRUE]>>
  /\ visited = <<1>>
  /\ view.path = "reviews"
  /\ view.actual = 3

\* a call in which no driver call has raised after a click moves the browser by one
\* page at most
OnePagePerCleanClick ==
  [][(pc = "nav" /\ sel = 1 /\ view.path = "reviews" /\ view'.path = "reviews") =>
       view'.actual <= view.actual + 1]_vars

====
